---- MODULE Spec2Model ----
(***************************************************************************)
(* A model of the W83781D sensor driver (src/src/w83781d.c): the register  *)
(* codec, the transport, the client registry w83781d_list, the cached      *)
(* device state struct w83781d_data with its serialized refresh            *)
(* w83781d_update_client, and the /proc accessor call-backs.               *)
(*                                                                         *)
(* Two specifications share the variables:                                 *)
(*   Spec     the accessor call-backs of one attached and initialized      *)
(*            device, called concurrently by several threads while the     *)
(*            jiffies clock runs;                                          *)
(*   RegSpec  the registry: sequential attach (detect) and detach calls    *)
(*            on the slot table w83781d_list.                              *)
(***************************************************************************)
EXTENDS Integers, Naturals, Sequences, FiniteSets, TLC

(***************************************************************************)
(* Bounds of the model.                                                    *)
(***************************************************************************)
\* Clock ticks in one behaviour.
MaxTicks == 2
\* The kernel's HZ (jiffies per second), scaled down; the staleness interval
\* of w83781d_update_client is HZ + HZ/2.
HZ == 1
\* jiffies is an unsigned long: it counts modulo 2^w, scaled down here.
JiffiesMod == 8

(***************************************************************************)
(* The W83781D registers (lines 46-70).                                    *)
(***************************************************************************)
W83781D_REG_IN_MAX(nr) == \h2b + nr * 2
W83781D_REG_IN_MIN(nr) == \h2c + nr * 2
W83781D_REG_IN(nr) == \h20 + nr
W83781D_REG_FAN_MIN(nr) == \h3a + nr
W83781D_REG_FAN(nr) == \h27 + nr
W83781D_REG_TEMP23 == \h50
W83781D_REG_TEMP_OVER23 == \h55
W83781D_REG_TEMP_HYST23 == \h53
W83781D_REG_TEMP == \h27
W83781D_REG_TEMP_OVER == \h39
W83781D_REG_TEMP_HYST == \h3A
W83781D_REG_TEMP_CONFIG == \h52
W83781D_REG_TEMP_SEL == \h4E
W83781D_REG_CONFIG == \h40
W83781D_REG_ALARM1 == \h41
W83781D_REG_ALARM2 == \h42
W83781D_REG_VID_FANDIV == \h47
W83781D_REG_CHIPID == \h58

(***************************************************************************)
(* C integer arithmetic.                                                   *)
(***************************************************************************)
Byte == 0 .. 255

\* C's integer division truncates toward zero.
CDiv(a, b) ==
  IF (a >= 0) = (b > 0) THEN (IF a >= 0 THEN a ELSE -a) \div (IF b > 0 THEN b ELSE -b)
  ELSE -((IF a >= 0 THEN a ELSE -a) \div (IF b > 0 THEN b ELSE -b))

\* x & 0xff on a two's complement int, and the store of an int into a u8.
U8(x) == x % 256

\* x >> n on a two's complement int (arithmetic shift).
Shr(x, n) == x \div (2 ^ n)

RECURSIVE BitOr(_, _)
\* a | b on non-negative ints.
BitOr(a, b) ==
  IF a = 0 THEN b
  ELSE IF b = 0 THEN a
  ELSE (IF a % 2 = 1 \/ b % 2 = 1 THEN 1 ELSE 0) + 2 * BitOr(a \div 2, b \div 2)

(***************************************************************************)
(* Conversions (lines 73-91).                                              *)
(***************************************************************************)
w83781d_in_conv == <<10000, 10000, 10000, 16892, 38000, -34768, -15050>>

\* nr is the 0-based index of the C array.
IN_TO_REG(val, nr) ==
  U8(CDiv(CDiv(val * 100000, w83781d_in_conv[nr + 1]) + 8, 16))

\* An IN_FROM_REG that scales by 16 after the division.
IN_FROM_REG_Coarse(val, nr) == CDiv(val * w83781d_in_conv[nr + 1], 100000) * 16

IN_FROM_REG(val, nr) == CDiv(val * 16 * w83781d_in_conv[nr + 1], 100000)

\* ?: binds weaker than &: the & 0xff applies to the quotient only.
FAN_TO_REG(val) == IF val = 0 THEN 255 ELSE U8(CDiv(1350000 + val, val * 2))

FAN_FROM_REG(val) ==
  IF val = 0 THEN -1 ELSE IF val = 255 THEN 0 ELSE CDiv(1350000, val * 2)

\* A TEMP_TO_REG that rounds a negative value as it does a positive one.
TEMP_TO_REG_OneBias(val) == U8(CDiv(val + 5, 10))

TEMP_TO_REG(val) ==
  U8(IF val < 0 THEN U8(CDiv(val - 5, 10)) ELSE CDiv(val + 5, 10))

TEMP_FROM_REG(val) == (IF val > 128 THEN val - 256 ELSE val) * 10

\* A VID_FROM_REG without the reserved codes 0x06..0x0f.
VID_FROM_REG_NoReserved(val) ==
  IF val = 31 THEN 0
  ELSE IF val >= 16 THEN 510 - val * 10
  ELSE 205 - val * 5

VID_FROM_REG(val) ==
  IF val = 31 THEN 0
  ELSE IF val >= 16 THEN 510 - val * 10
  ELSE IF val >= 6 THEN 0
  ELSE 205 - val * 5

ALARMS_FROM_REG(val) == val

\* 1 << val.  A shift by the width of int or more is undefined in C; the
\* x86 shift instruction takes the count modulo 32.
DIV_FROM_REG(val) ==
  IF val % 32 = 31 THEN -2147483647 - 1 ELSE 2 ^ (val % 32)

DIV_TO_REG(val) ==
  IF val = 8 THEN 3 ELSE IF val = 4 THEN 2 ELSE IF val = 1 THEN 0 ELSE 1

(***************************************************************************)
(* struct w83781d_data (lines 164-183).  The u8 arrays lie one after the   *)
(* other in the struct, so the cached bytes are modelled as the bytes of   *)
(* the struct: data_x(i) is the offset of data->x[i].  An index one past   *)
(* the end of an array (the accessors of temperature channel 3 use index   *)
(* 3) is the first byte of the member that follows.                        *)
(***************************************************************************)
data_in(i) == 0 + i
data_in_max(i) == 7 + i
data_in_min(i) == 14 + i
data_fan(i) == 21 + i
data_fan_min(i) == 24 + i
data_temp(i) == 27 + i
data_temp_over(i) == 30 + i
data_temp_hyst(i) == 33 + i
data_fan_div(i) == 36 + i
data_vid == data_fan_div(2)
DataBytes == 0 .. data_vid

(***************************************************************************)
(* The chip: a register file that keeps what was written.  Registers 0x50  *)
(* to 0x56 are banked: the value of the bank selector 0x4E says which of   *)
(* the banks an access reaches.                                            *)
(***************************************************************************)
BankedRegs == \h50 .. \h56
BankSelValues == {0, 1, 2, 4}
HwKeys ==
  {<<0, r>> : r \in (\h20 .. \h4F) \cup {W83781D_REG_CHIPID}}
    \cup {<<s, r>> : s \in BankSelValues, r \in BankedRegs}

HwKey(h, reg) ==
  IF reg \in BankedRegs THEN <<h[<<0, W83781D_REG_TEMP_SEL>>], reg>> ELSE <<0, reg>>

\* lines 596-609: both transports return the byte of the register.
w83781d_read_value(h, reg) == h[HwKey(h, reg)]

\* lines 616-626: both transports store the byte in the register.
w83781d_write_value(h, reg, value) == [h EXCEPT ![HwKey(h, reg)] = value]

\* The VID pins (low 4 bits of 0x47) and bit 0 of the chip id of the chips
\* the model attaches.
VidPins == {3}
IdBits == {1}

\* The register file of a chip before the driver touches it: the fan
\* divisor codes are 1 (divisor 2), the chip id is 0x20 plus the spare bit,
\* a bank is left selected, every other register holds a reading of its own.
PowerOn(vidpins, idbit) ==
  [k \in HwKeys |->
     IF k[2] = W83781D_REG_VID_FANDIV THEN 64 + 16 + vidpins
     ELSE IF k[2] = W83781D_REG_CHIPID THEN 32 + idbit
     ELSE IF k[2] = W83781D_REG_TEMP_SEL THEN 4
     ELSE (k[2] * 5 + k[1] * 3) % 256]

(***************************************************************************)
(* w83781d_init_client (lines 629-682) and the initial limits (93-138).    *)
(***************************************************************************)
W83781D_INIT_IN(nr, vid) ==
  IF nr \in {0, 1} THEN (IF vid = 350 THEN 280 ELSE vid)
  ELSE <<330, 500, 1200, -1200, -500>>[nr - 1]
W83781D_INIT_IN_PERCENTAGE == 10
W83781D_INIT_IN_MIN(nr, vid) ==
  W83781D_INIT_IN(nr, vid)
    - CDiv(W83781D_INIT_IN(nr, vid) * W83781D_INIT_IN_PERCENTAGE, 100)
W83781D_INIT_IN_MAX(nr, vid) ==
  W83781D_INIT_IN(nr, vid)
    + CDiv(W83781D_INIT_IN(nr, vid) * W83781D_INIT_IN_PERCENTAGE, 100)
W83781D_INIT_FAN_MIN == 3000
W83781D_INIT_TEMP_OVER == 600
W83781D_INIT_TEMP_HYST == 500

RECURSIVE ApplyWrites(_, _)
\* A run of w83781d_write_value calls, ws a sequence of <<reg, value>>.
ApplyWrites(h, ws) ==
  IF ws = <<>> THEN h
  ELSE ApplyWrites(w83781d_write_value(h, ws[1][1], ws[1][2]), Tail(ws))

\* The limits init_client pushes for voltage channel nr (lines 641-654).
InitInWrites(nr, vid) ==
  << <<W83781D_REG_IN_MIN(nr), IN_TO_REG(W83781D_INIT_IN_MIN(nr, vid), nr)>>,
     <<W83781D_REG_IN_MAX(nr), IN_TO_REG(W83781D_INIT_IN_MAX(nr, vid), nr)>> >>

\* The bank of a banked temperature sensor (lines 663-668, 670-675).
InitTemp23Writes(sel) ==
  << <<W83781D_REG_TEMP_SEL, sel>>,
     <<W83781D_REG_TEMP_OVER23, TEMP_TO_REG(W83781D_INIT_TEMP_OVER)>>,
     <<W83781D_REG_TEMP_OVER23 + 1, 0>>,
     <<W83781D_REG_TEMP_HYST23, TEMP_TO_REG(W83781D_INIT_TEMP_HYST)>>,
     <<W83781D_REG_TEMP_HYST23 + 1, 0>>,
     <<W83781D_REG_TEMP_CONFIG, 0>> >>

w83781d_init_client(h0) ==
  LET h1 == w83781d_write_value(h0, W83781D_REG_CONFIG, 128)
      \* (x & 0x01) >> 4 is 0 for every x
      vidreg == (w83781d_read_value(h1, W83781D_REG_VID_FANDIV) % 16)
                  + Shr(w83781d_read_value(h1, W83781D_REG_CHIPID) % 2, 4)
      vid == VID_FROM_REG(vidreg)
      h2 == ApplyWrites(h1,
              InitInWrites(0, vid) \o InitInWrites(1, vid) \o InitInWrites(2, vid)
                \o InitInWrites(3, vid) \o InitInWrites(4, vid)
                \o InitInWrites(5, vid) \o InitInWrites(6, vid)
                \o << <<W83781D_REG_FAN_MIN(1), FAN_TO_REG(W83781D_INIT_FAN_MIN)>>,
                      <<W83781D_REG_FAN_MIN(2), FAN_TO_REG(W83781D_INIT_FAN_MIN)>>,
                      <<W83781D_REG_FAN_MIN(3), FAN_TO_REG(W83781D_INIT_FAN_MIN)>>,
                      <<W83781D_REG_TEMP_SEL, 1>>,
                      <<W83781D_REG_TEMP_OVER, TEMP_TO_REG(W83781D_INIT_TEMP_OVER)>>,
                      <<W83781D_REG_TEMP_HYST, TEMP_TO_REG(W83781D_INIT_TEMP_HYST)>> >>
                \o InitTemp23Writes(2) \o InitTemp23Writes(4)
                \o << <<W83781D_REG_TEMP_SEL, 0>> >>)
      cfg == w83781d_read_value(h2, W83781D_REG_CONFIG)
      \* (cfg & 0xf7) | 0x01
      started == cfg - (Shr(cfg, 3) % 2) * 8 + (1 - (cfg % 2))
  IN  w83781d_write_value(h2, W83781D_REG_CONFIG, started)

(***************************************************************************)
(* The call-backs as straight-line programs.  A thread executes one        *)
(* instruction per step; every instruction is one C statement that reads   *)
(* or writes shared state (the cache, the locks, the chip):                *)
(*   down, up          the update_lock semaphore                           *)
(*   check             the refresh predicate of w83781d_update_client      *)
(*   ld off reg        data[off] = w83781d_read_value(reg)                 *)
(*   ldvid off reg     data[off] |= (w83781d_read_value(reg) & 0x01) >> 4  *)
(*   rd reg            a local (i, old) = w83781d_read_value(reg)          *)
(*   mv off how        data[off] = a function of the local                 *)
(*   alarms reg        data->alarms = local + (read_value(reg) >> 8)       *)
(*   stamp, valid      data->last_updated = jiffies; data->valid = 1       *)
(*   wr reg val        w83781d_write_value(reg, val), val a constant       *)
(*   wrd reg off       w83781d_write_value(reg, data[off])                 *)
(*   wrt reg           w83781d_write_value(reg, local)                     *)
(*   st off val        data[off] = val, val the encoded input              *)
(*   mix off sh        local = (local & ~(3 << sh)) | (data[off] << sh)    *)
(*   res n dec nr off  results[n] = decode(data[off])                      *)
(*   resk n val        results[n] = val                                    *)
(*   ret n             *nrels_mag = n; return                              *)
(***************************************************************************)
Down == [k |-> "down"]
Up == [k |-> "up"]
Check == [k |-> "check"]
Ld(off, reg) == [k |-> "ld", off |-> off, reg |-> reg]
LdVid(off, reg) == [k |-> "ldvid", off |-> off, reg |-> reg]
Rd(reg) == [k |-> "rd", reg |-> reg]
Mv(off, how) == [k |-> "mv", off |-> off, how |-> how]
Alarms(reg) == [k |-> "alarms", reg |-> reg]
Stamp == [k |-> "stamp"]
Valid == [k |-> "valid"]
Wr(reg, val) == [k |-> "wr", reg |-> reg, val |-> val]
WrD(reg, off) == [k |-> "wrd", reg |-> reg, off |-> off]
WrT(reg) == [k |-> "wrt", reg |-> reg]
St(off, val) == [k |-> "st", off |-> off, val |-> val]
Mix(off, sh) == [k |-> "mix", off |-> off, sh |-> sh]
Res(n, dec, nr, off) == [k |-> "res", n |-> n, dec |-> dec, nr |-> nr, off |-> off]
ResK(n, val) == [k |-> "resk", n |-> n, val |-> val]
Ret(n) == [k |-> "ret", n |-> n]

\* The instructions of w83781d_update_client carry sect "upd", the
\* accessor's own carry "acc".
Sect(prog, s) == [j \in DOMAIN prog |-> prog[j] @@ [sect |-> s]]

SENSORS_PROC_REAL_INFO == "INFO"
SENSORS_PROC_REAL_READ == "READ"
SENSORS_PROC_REAL_WRITE == "WRITE"

\* lines 697-701, one iteration of the loop over the voltage channels
UpdateIn(i) ==
  << Ld(data_in(i), W83781D_REG_IN(i)),
     Ld(data_in_min(i), W83781D_REG_IN_MIN(i)),
     Ld(data_in_max(i), W83781D_REG_IN_MAX(i)) >>

\* lines 702-705, one iteration of the loop over the fans
UpdateFan(i) ==
  << Ld(data_fan(i - 1), W83781D_REG_FAN(i)),
     Ld(data_fan_min(i - 1), W83781D_REG_FAN_MIN(i)) >>

\* lines 710-715, one iteration of the loop over the banked sensors
UpdateTemp23(i) ==
  << Wr(W83781D_REG_TEMP_SEL, 2 ^ i),
     Ld(data_temp(i), W83781D_REG_TEMP23),
     Ld(data_temp_over(i), W83781D_REG_TEMP_OVER23),
     Ld(data_temp_hyst(i), W83781D_REG_TEMP_HYST23) >>

\* A refresh that returns without releasing update_lock.
w83781d_update_client_NoUp ==
  Sect(<<Down, Check, Rd(W83781D_REG_ALARM1), Alarms(W83781D_REG_ALARM2),
         Stamp, Valid>>, "upd")

\* lines 684-729
w83781d_update_client ==
  Sect(<<Down, Check>>
    \o UpdateIn(0) \o UpdateIn(1) \o UpdateIn(2) \o UpdateIn(3)
    \o UpdateIn(4) \o UpdateIn(5) \o UpdateIn(6)
    \o UpdateFan(1) \o UpdateFan(2) \o UpdateFan(3)
    \o << Wr(W83781D_REG_TEMP_SEL, 1),
          Ld(data_temp(0), W83781D_REG_TEMP),
          Ld(data_temp_over(0), W83781D_REG_TEMP_OVER),
          Ld(data_temp_hyst(0), W83781D_REG_TEMP_HYST) >>
    \o UpdateTemp23(1) \o UpdateTemp23(2)
    \o << Wr(W83781D_REG_TEMP_SEL, 0),
          Rd(W83781D_REG_VID_FANDIV),
          Mv(data_vid, "lo4"),
          LdVid(data_vid, W83781D_REG_CHIPID),
          Mv(data_fan_div(0), "div0"),
          Mv(data_fan_div(1), "div1"),
          Rd(W83781D_REG_ALARM1),
          Alarms(W83781D_REG_ALARM2),
          Stamp,
          Valid,
          Up >>, "upd")

\* A call of a call-back: c.fn the ctl_table entry, c.operation, c.nr the
\* channel that ctl_name selects, c.nrels the incoming *nrels_mag and
\* c.results the incoming results[] of a write.

\* lines 745-769; nr = ctl_name - W83781D_SYSCTL_IN0
w83781d_in(c) ==
  IF c.operation = SENSORS_PROC_REAL_INFO THEN Sect(<<Ret(2)>>, "acc")
  ELSE IF c.operation = SENSORS_PROC_REAL_READ THEN
    w83781d_update_client
      \o Sect(<< Res(0, "IN", c.nr, data_in_min(c.nr)),
                 Res(1, "IN", c.nr, data_in_max(c.nr)),
                 Res(2, "IN", c.nr, data_in(c.nr)),
                 Ret(3) >>, "acc")
  ELSE
    Sect((IF c.nrels >= 1
            THEN << St(data_in_min(c.nr), IN_TO_REG(c.results[1], c.nr)),
                    WrD(W83781D_REG_IN_MIN(c.nr), data_in_min(c.nr)) >>
            ELSE <<>>)
         \o (IF c.nrels >= 2
               THEN << St(data_in_max(c.nr), IN_TO_REG(c.results[2], c.nr)),
                       WrD(W83781D_REG_IN_MAX(c.nr), data_in_max(c.nr)) >>
               ELSE <<>>)
         \o <<Ret(c.nrels)>>, "acc")

\* lines 771-790; nr = ctl_name - W83781D_SYSCTL_FAN1 + 1
w83781d_fan(c) ==
  IF c.operation = SENSORS_PROC_REAL_INFO THEN Sect(<<Ret(0)>>, "acc")
  ELSE IF c.operation = SENSORS_PROC_REAL_READ THEN
    w83781d_update_client
      \o Sect(<< Res(0, "FAN", c.nr, data_fan_min(c.nr - 1)),
                 Res(1, "FAN", c.nr, data_fan(c.nr - 1)),
                 Ret(2) >>, "acc")
  ELSE
    Sect((IF c.nrels >= 1
            THEN << St(data_fan_min(c.nr - 1), FAN_TO_REG(c.results[1])),
                    WrD(W83781D_REG_FAN_MIN(c.nr), data_fan_min(c.nr - 1)) >>
            ELSE <<>>)
         \o <<Ret(c.nrels)>>, "acc")

\* lines 793-828, without the return: the callers go on after it
w83781d_temp(c, tempnum) ==
  IF c.operation = SENSORS_PROC_REAL_INFO THEN <<>>
  ELSE IF c.operation = SENSORS_PROC_REAL_READ THEN
    w83781d_update_client
      \o Sect(<< Res(0, "TEMP", tempnum, data_temp_over(tempnum)),
                 Res(1, "TEMP", tempnum, data_temp_hyst(tempnum)),
                 Res(2, "TEMP", tempnum, data_temp(tempnum)) >>, "acc")
  ELSE IF tempnum > 1 THEN
    Sect((IF c.nrels >= 1
            THEN << St(data_temp_over(tempnum), TEMP_TO_REG(c.results[1])),
                    WrD(W83781D_REG_TEMP_OVER23, data_temp_over(tempnum)),
                    Wr(W83781D_REG_TEMP_OVER23 + 1, 0) >>
            ELSE <<>>)
         \o (IF c.nrels >= 2
               THEN << St(data_temp_hyst(tempnum), TEMP_TO_REG(c.results[2])),
                       WrD(W83781D_REG_TEMP_HYST23, data_temp_hyst(tempnum)),
                       Wr(W83781D_REG_TEMP_HYST23 + 1, 0) >>
               ELSE <<>>), "acc")
  ELSE
    Sect((IF c.nrels >= 1
            THEN << St(data_temp_over(tempnum), TEMP_TO_REG(c.results[1])),
                    WrD(W83781D_REG_TEMP_OVER, data_temp_over(tempnum)) >>
            ELSE <<>>)
         \o (IF c.nrels >= 2
               THEN << St(data_temp_hyst(tempnum), TEMP_TO_REG(c.results[2])),
                       WrD(W83781D_REG_TEMP_HYST, data_temp_hyst(tempnum)) >>
               ELSE <<>>), "acc")

\* What the call leaves in *nrels_mag (lines 798, 804; a write leaves it).
TempNrels(c) ==
  IF c.operation = SENSORS_PROC_REAL_INFO THEN 1
  ELSE IF c.operation = SENSORS_PROC_REAL_READ THEN 3
  ELSE c.nrels

\* lines 831-837
w83781d_temp1(c) ==
  Sect(<<Wr(W83781D_REG_TEMP_SEL, 1)>>, "acc")
    \o w83781d_temp(c, 1)
    \o Sect(<<Wr(W83781D_REG_TEMP_SEL, 0), Ret(TempNrels(c))>>, "acc")

\* lines 840-846
w83781d_temp2(c) ==
  Sect(<<Wr(W83781D_REG_TEMP_SEL, 2)>>, "acc")
    \o w83781d_temp(c, 2)
    \o Sect(<<Wr(W83781D_REG_TEMP_SEL, 0), Ret(TempNrels(c))>>, "acc")

\* A temp3 that leaves its bank selected.
w83781d_temp3_NoRestore(c) ==
  Sect(<<Wr(W83781D_REG_TEMP_SEL, 4)>>, "acc")
    \o w83781d_temp(c, 3)
    \o Sect(<<Ret(TempNrels(c))>>, "acc")

\* lines 849-855
w83781d_temp3(c) ==
  Sect(<<Wr(W83781D_REG_TEMP_SEL, 4)>>, "acc")
    \o w83781d_temp(c, 3)
    \o Sect(<<Wr(W83781D_REG_TEMP_SEL, 0), Ret(TempNrels(c))>>, "acc")

\* lines 858-869; a write does nothing
w83781d_vid(c) ==
  IF c.operation = SENSORS_PROC_REAL_INFO THEN Sect(<<Ret(2)>>, "acc")
  ELSE IF c.operation = SENSORS_PROC_REAL_READ THEN
    w83781d_update_client
      \o Sect(<<Res(0, "VID", 0, data_vid), Ret(1)>>, "acc")
  ELSE Sect(<<Ret(c.nrels)>>, "acc")

\* lines 871-882; the alarms are not among the bytes of data: off is unused
w83781d_alarms(c) ==
  IF c.operation = SENSORS_PROC_REAL_INFO THEN Sect(<<Ret(0)>>, "acc")
  ELSE IF c.operation = SENSORS_PROC_REAL_READ THEN
    w83781d_update_client
      \o Sect(<<Res(0, "ALARMS", 0, 0), Ret(1)>>, "acc")
  ELSE Sect(<<Ret(c.nrels)>>, "acc")

\* lines 884-910
w83781d_fan_div(c) ==
  IF c.operation = SENSORS_PROC_REAL_INFO THEN Sect(<<Ret(0)>>, "acc")
  ELSE IF c.operation = SENSORS_PROC_REAL_READ THEN
    w83781d_update_client
      \o Sect(<< Res(0, "DIV", 0, data_fan_div(0)),
                 Res(1, "DIV", 1, data_fan_div(1)),
                 ResK(2, 2),
                 Ret(3) >>, "acc")
  ELSE
    Sect(<<Rd(W83781D_REG_VID_FANDIV)>>
         \o (IF c.nrels >= 2
               THEN << St(data_fan_div(1), DIV_TO_REG(c.results[2])),
                       Mix(data_fan_div(1), 6) >>
               ELSE <<>>)
         \o (IF c.nrels >= 1
               THEN << St(data_fan_div(0), DIV_TO_REG(c.results[1])),
                       Mix(data_fan_div(0), 4),
                       WrT(W83781D_REG_VID_FANDIV) >>
               ELSE <<>>)
         \o <<Ret(c.nrels)>>, "acc")

\* The ctl_table (lines 256-290): the call-back of each entry.
Program(c) ==
  CASE c.fn = "in" -> w83781d_in(c)
    [] c.fn = "fan" -> w83781d_fan(c)
    [] c.fn = "temp" -> w83781d_temp1(c)
    [] c.fn = "temp2" -> w83781d_temp2(c)
    [] c.fn = "temp3" -> w83781d_temp3(c)
    [] c.fn = "vid" -> w83781d_vid(c)
    [] c.fn = "alarms" -> w83781d_alarms(c)
    [] c.fn = "fan_div" -> w83781d_fan_div(c)

(***************************************************************************)
(* The calls the threads make: the inputs of the model.                    *)
(***************************************************************************)
InNrs == {0}
InValues == <<280, 300>>
FanValues == <<2000>>
TempValues == <<400, 350>>
DivValues == <<4, 8>>

MkCall(fn, operation, nr, nrels, res) ==
  [fn |-> fn, operation |-> operation, nr |-> nr, nrels |-> nrels, results |-> res]

TempFns == {"temp", "temp2", "temp3"}

ReadCalls ==
  {MkCall("in", SENSORS_PROC_REAL_READ, nr, 0, <<>>) : nr \in InNrs}
    \cup {MkCall(fn, SENSORS_PROC_REAL_READ, 0, 0, <<>>) :
            fn \in {"temp", "temp3", "fan_div"}}

WriteCalls ==
  {MkCall("in", SENSORS_PROC_REAL_WRITE, nr, 2, InValues) : nr \in InNrs}
    \cup {MkCall("temp", SENSORS_PROC_REAL_WRITE, 0, 1, TempValues),
          MkCall("fan_div", SENSORS_PROC_REAL_WRITE, 0, 2, DivValues)}

Calls == ReadCalls \cup WriteCalls

NoCall == MkCall("none", "none", 0, 0, <<>>)

\* The calls of a single caller that makes its calls one after the other:
\* every entry of the ctl_table read, and written with each number of
\* values that the call-back tells apart.
SeqCalls ==
  {MkCall(fn, SENSORS_PROC_REAL_READ, 0, 0, <<>>) :
     fn \in {"in", "vid", "alarms", "fan_div"} \cup TempFns}
    \cup {MkCall("fan", op_, 1, 1, FanValues) :
            op_ \in {SENSORS_PROC_REAL_READ, SENSORS_PROC_REAL_WRITE}}
    \cup {MkCall("in", SENSORS_PROC_REAL_WRITE, 0, n, InValues) : n \in 1 .. 2}
    \cup {MkCall(fn, SENSORS_PROC_REAL_WRITE, 0, n, TempValues) :
            fn \in TempFns, n \in 1 .. 2}
    \cup {MkCall("fan_div", SENSORS_PROC_REAL_WRITE, 0, n, DivValues) :
            n \in 1 .. 2}

\* The calls of two callers that set the fan divisors at the same time: one
\* or both divisors, to the pair 4, 8 or to the pair 1, 2.
DivPairs == {DivValues, <<1, 2>>}
DivCalls ==
  {MkCall("fan_div", SENSORS_PROC_REAL_WRITE, 0, n, v) :
     n \in 1 .. 2, v \in DivPairs}

ProgOf == [c \in Calls \cup SeqCalls \cup DivCalls |-> Program(c)]


\* The threads, numbered in the order of their calls; each makes one call.
Threads == {1, 2}

(***************************************************************************)
(* The state.                                                              *)
(***************************************************************************)
VARIABLES
  \* struct w83781d_data of the device
  data,          \* the u8 members in[] .. vid, by offset
  alarms,        \* data->alarms, a u16
  valid,         \* data->valid
  last_updated,  \* data->last_updated, in jiffies
  update_lock,   \* data->update_lock: 0 when free, else the holder
  \* the chip and the clock
  hw,            \* the register file of the chip
  jiffies,       \* the kernel's tick counter
  \* the threads in the call-backs
  pc,            \* the next instruction of the thread's call, 0 when in no call
  call,          \* the thread's call (kept after the return, until the next)
  tmp,           \* the local i of update_client, old of fan_div
  results,       \* results[] as the call fills it
  nrels_mag,     \* *nrels_mag as the call leaves it
  \* history, read by the properties only
  ticks,         \* clock ticks since the start
  pass,          \* refresh passes started
  stamp,         \* for each byte of data, the pass that loaded it (0: none)
  obs,           \* for each thread, the passes its read call decoded bytes of
  passes_done,   \* refresh passes completed
  done_tick,     \* ticks when the last pass stamped last_updated
  called_at,     \* for each thread, passes_done when its call began
  refreshed,     \* for each thread, whether its call ran the refresh pass
  after          \* for each thread, the threads that had returned when it called

(***************************************************************************)
(* The registry: the slot table w83781d_list, the client structures that   *)
(* kmalloc handed out, and what the bus layer, the sensors module and the   *)
(* I/O port map hold.  Attach and detach calls come one at a time; op is    *)
(* the call in progress.                                                    *)
(***************************************************************************)
VARIABLES
  w83781d_list,    \* slot -> client pointer, or NULL
  mem,             \* client pointer -> the structure at that address
  bus_clients,     \* the clients the bus layer has attached
  sysctl_entries,  \* the sysctl ids the sensors module has registered
  region,          \* whether the I/O region at 0x290 is requested
  op,              \* the attach or detach call in progress
  live,            \* history: the clients created and not yet removed
  detached,        \* history: the pointers a detach freed, not handed out since
  ncalls           \* history: the attach and detach calls made

(***************************************************************************)
(* The conversion macros on their own: an argument and, once the macro has *)
(* been applied to it, the result.                                         *)
(***************************************************************************)
VARIABLES
  codec            \* [f, val, nr, done, out]: the macro, its argument, its result

(***************************************************************************)
(* w83781d_new_client and w83781d_remove_client entered by two threads at  *)
(* once: rc is, for each thread, its call in progress.                     *)
(***************************************************************************)
VARIABLES
  rc               \* thread -> [fn, pc, i, client, err], or NoOp

(***************************************************************************)
(* The transport where it is more than one step that always succeeds.      *)
(***************************************************************************)
VARIABLES
  failed,          \* history: the refresh passes in which a register read failed
  transport_lock,  \* data->lock: 0 when free, else the thread that holds it
  addr_port,       \* the register number latched at isa_addr + 5
  io,              \* thread -> [pc, kind, reg, value, res, acted], or NoIo
  entered          \* thread -> the pc of the access it holds data->lock for, or 0

isavars == <<transport_lock, addr_port, io, entered>>
tpvars == <<failed, isavars>>
sidevars == <<codec, rc, tpvars>>
regvars ==
  <<w83781d_list, mem, bus_clients, sysctl_entries, region, op, live, detached,
    ncalls>>
devvars == <<data, alarms, valid, last_updated, update_lock, hw>>
thrvars == <<pc, call, tmp, results, nrels_mag>>
histvars == <<ticks, pass, stamp, obs, passes_done, done_tick, called_at, refreshed, after>>
vars == <<devvars, jiffies, thrvars, histvars, regvars, sidevars>>

\* w83781d_new_client (lines 552-555) sets valid and the semaphores only:
\* the other members are as kmalloc left them.  Such a member holds Uninit
\* until it is first written, and reading it yields any value.
Uninit == -1
ReadMem(v, range) == IF v = Uninit THEN range ELSE {v}

\* line 231
MAX_W83781D_NR == 4
Slots == 0 .. MAX_W83781D_NR - 1
NULL == 0

\* The attach and detach calls of a run, and the addresses kmalloc can
\* return.
MaxCalls == 4
MaxPtrs == 5
Ptrs == 1 .. MaxPtrs

\* errno values
ENOENT == 2
ENOMEM == 12
ENODEV == 19

\* A client structure: struct i2c_client or isa_client with its
\* w83781d_data.  Memory that is not allocated, and members not yet
\* written, hold Uninit.  The members no function of the driver reads
\* again (name, addr, adapter, driver) are left out.
FreeMem ==
  [alloc |-> FALSE, isa |-> Uninit, id |-> Uninit,
   valid |-> Uninit, update_lock |-> Uninit, sysctl_id |-> Uninit,
   initialized |-> FALSE]

NoOp == [fn |-> "none"]

\* The registry no adapter has been attached to yet.
RegEmpty ==
  /\ w83781d_list = [i \in Slots |-> NULL]
  /\ mem = [p \in Ptrs |-> FreeMem]
  /\ bus_clients = {}
  /\ sysctl_entries = {}
  /\ region = FALSE
  /\ op = NoOp
  /\ live = {}
  /\ detached = {}
  /\ ncalls = 0

\* The registry after w83781d_detect_smbus found one chip, at 0x2d.
RegAttached ==
  /\ w83781d_list = [i \in Slots |-> IF i = 0 THEN 1 ELSE NULL]
  /\ mem = [p \in Ptrs |->
              IF p = 1
                THEN [alloc |-> TRUE, isa |-> 0, id |-> 0,
                      valid |-> 0, update_lock |-> 0, sysctl_id |-> 1,
                      initialized |-> TRUE]
                ELSE FreeMem]
  /\ bus_clients = {1}
  /\ sysctl_entries = {1}
  /\ region = FALSE
  /\ op = NoOp
  /\ live = {1}
  /\ detached = {}
  /\ ncalls = 1

\* The device of an attached client before its first call-back.
DevInit ==
  /\ data = [o \in DataBytes |-> Uninit]
  /\ alarms = Uninit
  /\ valid = FALSE
  /\ last_updated = Uninit
  /\ update_lock = 0
  /\ \E v \in VidPins, b \in IdBits : hw = w83781d_init_client(PowerOn(v, b))
  /\ jiffies \in {0, JiffiesMod - 1}
  /\ pc = [t \in Threads |-> 0]
  /\ call = [t \in Threads |-> NoCall]
  /\ tmp = [t \in Threads |-> 0]
  /\ results = [t \in Threads |-> <<>>]
  /\ nrels_mag = [t \in Threads |-> 0]
  /\ ticks = 0
  /\ pass = 0
  /\ stamp = [o \in DataBytes |-> 0]
  /\ obs = [t \in Threads |-> {}]
  /\ passes_done = 0
  /\ done_tick = 0
  /\ called_at = [t \in Threads |-> 0]
  /\ refreshed = [t \in Threads |-> FALSE]
  /\ after = [t \in Threads |-> {}]

\* No conversion is being followed.
NoCodec == [f |-> "none", val |-> 0, nr |-> 0, done |-> FALSE, out |-> 0]
RcIdle == rc = [t \in Threads |-> NoOp]
\* No thread is inside w83781d_read_value or w83781d_write_value.
NoIo == [pc |-> "idle", kind |-> "none", reg |-> 0, value |-> 0, res |-> 0,
         acted |-> <<>>]
TpIdle ==
  /\ failed = {}
  /\ transport_lock = 0
  /\ addr_port = 0
  /\ io = [t \in Threads |-> NoIo]
  /\ entered = [t \in Threads |-> 0]
SideIdle == codec = NoCodec /\ RcIdle /\ TpIdle

Init == DevInit /\ RegAttached /\ SideIdle

Instr(t) == ProgOf[call[t]][pc[t]]
At(t, kind) == pc[t] > 0 /\ Instr(t).k = kind
Goto(t, n) == pc' = [pc EXCEPT ![t] = n]
Step(t) == Goto(t, pc[t] + 1)

\* A refresh predicate that forgets the clock running backwards.
StaleNoBackwards(j, lu, v) ==
  \/ (j - lu) % JiffiesMod > HZ + CDiv(HZ, 2)
  \/ ~v

\* A caller that takes its own refresh to be needed, whatever it finds.
StaleAlways(j, lu, v) == TRUE

\* The refresh predicate (lines 691-692): jiffies - last_updated is an
\* unsigned subtraction.
Stale(j, lu, v) ==
  \/ (j - lu) % JiffiesMod > HZ + CDiv(HZ, 2)
  \/ j < lu
  \/ ~v

\* A down() that does not wait.
DownNoWait(lock) == TRUE

\* down(&data->update_lock) returns when the semaphore is free.
DownReady(lock) == lock = 0

(***************************************************************************)
(* The actions.                                                            *)
(***************************************************************************)
\* sensors_proc_real / sensors_sysctl_real call the call-back of an entry.
Call(t, c) ==
  /\ pc[t] = 0
  /\ call[t] = NoCall
  /\ \A u \in Threads : u < t => call[u] # NoCall
  /\ call' = [call EXCEPT ![t] = c]
  /\ Goto(t, 1)
  /\ tmp' = [tmp EXCEPT ![t] = 0]
  /\ results' = [results EXCEPT ![t] = <<>>]
  /\ nrels_mag' = [nrels_mag EXCEPT ![t] = c.nrels]
  /\ obs' = [obs EXCEPT ![t] = {}]
  /\ called_at' = [called_at EXCEPT ![t] = passes_done]
  /\ refreshed' = [refreshed EXCEPT ![t] = FALSE]
  /\ after' = [after EXCEPT ![t] = {u \in Threads : pc[u] = 0 /\ call[u] # NoCall}]
  /\ UNCHANGED <<regvars, sidevars, devvars, jiffies, ticks, pass, stamp, passes_done, done_tick>>

\* line 689
DoDown(t) ==
  /\ At(t, "down")
  /\ DownReady(update_lock)
  /\ update_lock' = t
  /\ Step(t)
  /\ UNCHANGED <<regvars, sidevars, data, alarms, valid, last_updated, hw, jiffies,
                 call, tmp, results, nrels_mag, histvars>>

\* lines 691-692
DoCheck(t) ==
  /\ At(t, "check")
  /\ IF \E lu \in ReadMem(last_updated, 0 .. JiffiesMod - 1) : Stale(jiffies, lu, valid)
       THEN /\ Step(t)
            /\ pass' = pass + 1
            /\ refreshed' = [refreshed EXCEPT ![t] = TRUE]
       ELSE /\ Goto(t, CHOOSE j \in DOMAIN ProgOf[call[t]] : ProgOf[call[t]][j].k = "up")
            /\ UNCHANGED <<regvars, sidevars, pass, refreshed>>
  /\ UNCHANGED <<regvars, sidevars, devvars, jiffies, call, tmp, results, nrels_mag,
                 ticks, stamp, obs, passes_done, done_tick, called_at, after>>

\* data->x[i] = w83781d_read_value(client, reg)
DoLd(t) ==
  /\ At(t, "ld")
  /\ data' = [data EXCEPT ![Instr(t).off] = U8(w83781d_read_value(hw, Instr(t).reg))]
  /\ stamp' = [stamp EXCEPT ![Instr(t).off] = pass]
  /\ Step(t)
  /\ UNCHANGED <<regvars, sidevars, alarms, valid, last_updated, update_lock, hw, jiffies,
                 call, tmp, results, nrels_mag,
                 ticks, pass, obs, passes_done, done_tick, called_at, refreshed, after>>

\* line 719: data->vid |= (w83781d_read_value(client, reg) & 0x01) >> 4
DoLdVid(t) ==
  /\ At(t, "ldvid")
  /\ data' = [data EXCEPT ![Instr(t).off] =
                U8(BitOr(@, Shr(w83781d_read_value(hw, Instr(t).reg) % 2, 4)))]
  /\ Step(t)
  /\ UNCHANGED <<regvars, sidevars, alarms, valid, last_updated, update_lock, hw, jiffies,
                 call, tmp, results, nrels_mag, histvars>>

\* lines 717, 899 and the first operand of line 722
DoRd(t) ==
  /\ At(t, "rd")
  /\ tmp' = [tmp EXCEPT ![t] = w83781d_read_value(hw, Instr(t).reg)]
  /\ Step(t)
  /\ UNCHANGED <<regvars, sidevars, devvars, jiffies, call, results, nrels_mag, histvars>>

\* lines 718, 720, 721
MvValue(how, i) ==
  CASE how = "lo4" -> i % 16
    [] how = "div0" -> Shr(i, 4) % 4
    [] how = "div1" -> U8(Shr(i, 6))

DoMv(t) ==
  /\ At(t, "mv")
  /\ data' = [data EXCEPT ![Instr(t).off] = MvValue(Instr(t).how, tmp[t])]
  /\ stamp' = [stamp EXCEPT ![Instr(t).off] = pass]
  /\ Step(t)
  /\ UNCHANGED <<regvars, sidevars, alarms, valid, last_updated, update_lock, hw, jiffies,
                 call, tmp, results, nrels_mag,
                 ticks, pass, obs, passes_done, done_tick, called_at, refreshed, after>>

\* lines 722-723
DoAlarms(t) ==
  /\ At(t, "alarms")
  /\ alarms' = (tmp[t] + Shr(w83781d_read_value(hw, Instr(t).reg), 8)) % 65536
  /\ tmp' = [tmp EXCEPT ![t] = 0]
  /\ Step(t)
  /\ UNCHANGED <<regvars, sidevars, data, valid, last_updated, update_lock, hw, jiffies,
                 call, results, nrels_mag, histvars>>

\* line 724
DoStamp(t) ==
  /\ At(t, "stamp")
  /\ last_updated' = jiffies
  /\ done_tick' = ticks
  /\ Step(t)
  /\ UNCHANGED <<regvars, sidevars, data, alarms, valid, update_lock, hw, jiffies,
                 call, tmp, results, nrels_mag,
                 ticks, pass, stamp, obs, passes_done, called_at, refreshed, after>>

\* line 725
DoValid(t) ==
  /\ At(t, "valid")
  /\ valid' = TRUE
  /\ passes_done' = passes_done + 1
  /\ Step(t)
  /\ UNCHANGED <<regvars, sidevars, data, alarms, last_updated, update_lock, hw, jiffies,
                 call, tmp, results, nrels_mag,
                 ticks, pass, stamp, obs, done_tick, called_at, refreshed, after>>

\* line 728
DoUp(t) ==
  /\ At(t, "up")
  /\ update_lock' = 0
  /\ Step(t)
  /\ UNCHANGED <<regvars, sidevars, data, alarms, valid, last_updated, hw, jiffies,
                 call, tmp, results, nrels_mag, histvars>>

\* w83781d_write_value(client, reg, constant)
DoWr(t) ==
  /\ At(t, "wr")
  /\ hw' = w83781d_write_value(hw, Instr(t).reg, Instr(t).val)
  /\ Step(t)
  /\ UNCHANGED <<regvars, sidevars, data, alarms, valid, last_updated, update_lock, jiffies,
                 call, tmp, results, nrels_mag, histvars>>

\* w83781d_write_value(client, reg, data->x[i])
DoWrD(t) ==
  /\ At(t, "wrd")
  /\ \E v \in ReadMem(data[Instr(t).off], Byte) :
       hw' = w83781d_write_value(hw, Instr(t).reg, v)
  /\ Step(t)
  /\ UNCHANGED <<regvars, sidevars, data, alarms, valid, last_updated, update_lock, jiffies,
                 call, tmp, results, nrels_mag, histvars>>

\* line 907: w83781d_write_value(client, reg, old); value is a u8 parameter
DoWrT(t) ==
  /\ At(t, "wrt")
  /\ hw' = w83781d_write_value(hw, Instr(t).reg, U8(tmp[t]))
  /\ tmp' = [tmp EXCEPT ![t] = 0]
  /\ Step(t)
  /\ UNCHANGED <<regvars, sidevars, data, alarms, valid, last_updated, update_lock, jiffies,
                 call, results, nrels_mag, histvars>>

\* data->x[i] = X_TO_REG(results[n]) of a write
DoSt(t) ==
  /\ At(t, "st")
  /\ data' = [data EXCEPT ![Instr(t).off] = Instr(t).val]
  /\ Step(t)
  /\ UNCHANGED <<regvars, sidevars, alarms, valid, last_updated, update_lock, hw, jiffies,
                 call, tmp, results, nrels_mag, histvars>>

\* lines 902, 906: old = (old & ~(3 << sh)) | (data->fan_div[i] << sh),
\* the masks 0x3f and 0xcf also clear what lies above bit 7
DoMix(t) ==
  /\ At(t, "mix")
  /\ LET sh == Instr(t).sh
         old == tmp[t] % 256
         kept == old - (Shr(old, sh) % 4) * (2 ^ sh)
     IN  \E v \in ReadMem(data[Instr(t).off], Byte) :
           tmp' = [tmp EXCEPT ![t] = BitOr(kept, v * (2 ^ sh))]
  /\ Step(t)
  /\ UNCHANGED <<regvars, sidevars, devvars, jiffies, call, results, nrels_mag, histvars>>

\* The X_FROM_REG of a read.
Decode(dec, nr, val) ==
  CASE dec = "IN" -> IN_FROM_REG(val, nr)
    [] dec = "FAN" -> FAN_FROM_REG(val)
    [] dec = "TEMP" -> TEMP_FROM_REG(val)
    [] dec = "VID" -> VID_FROM_REG(val)
    [] dec = "ALARMS" -> ALARMS_FROM_REG(val)
    [] dec = "DIV" -> DIV_FROM_REG(val)

\* results[n] = X_FROM_REG(data->x[i])
DoRes(t) ==
  /\ At(t, "res")
  /\ LET i == Instr(t)
     IN  /\ \E val \in (IF i.dec = "ALARMS" THEN ReadMem(alarms, 0 .. 65535)
                                               ELSE ReadMem(data[i.off], Byte)) :
              results' = [results EXCEPT ![t] = Append(@, Decode(i.dec, i.nr, val))]
         /\ obs' = [obs EXCEPT ![t] = IF i.dec = "ALARMS" THEN @ ELSE @ \cup {stamp[i.off]}]
  /\ Step(t)
  /\ UNCHANGED <<regvars, sidevars, devvars, jiffies, call, tmp, nrels_mag,
                 ticks, pass, stamp, passes_done, done_tick, called_at, refreshed, after>>

\* line 896: results[2] = 2
DoResK(t) ==
  /\ At(t, "resk")
  /\ results' = [results EXCEPT ![t] = Append(@, Instr(t).val)]
  /\ Step(t)
  /\ UNCHANGED <<regvars, sidevars, devvars, jiffies, call, tmp, nrels_mag, histvars>>

\* *nrels_mag = n and the return of the call-back
DoRet(t) ==
  /\ At(t, "ret")
  /\ nrels_mag' = [nrels_mag EXCEPT ![t] = Instr(t).n]
  /\ Goto(t, 0)
  /\ UNCHANGED <<regvars, sidevars, devvars, jiffies, call, tmp, results, histvars>>

\* The timer interrupt.
Tick ==
  /\ ticks < MaxTicks
  /\ ticks' = ticks + 1
  /\ jiffies' = (jiffies + 1) % JiffiesMod
  /\ UNCHANGED <<regvars, sidevars, devvars, thrvars, pass, stamp, obs, passes_done,
                 done_tick, called_at, refreshed, after>>

Next ==
  \/ \E t \in Threads, c \in Calls : Call(t, c)
  \/ \E t \in Threads : DoDown(t)
  \/ \E t \in Threads : DoCheck(t)
  \/ \E t \in Threads : DoLd(t)
  \/ \E t \in Threads : DoLdVid(t)
  \/ \E t \in Threads : DoRd(t)
  \/ \E t \in Threads : DoMv(t)
  \/ \E t \in Threads : DoAlarms(t)
  \/ \E t \in Threads : DoStamp(t)
  \/ \E t \in Threads : DoValid(t)
  \/ \E t \in Threads : DoUp(t)
  \/ \E t \in Threads : DoWr(t)
  \/ \E t \in Threads : DoWrD(t)
  \/ \E t \in Threads : DoWrT(t)
  \/ \E t \in Threads : DoSt(t)
  \/ \E t \in Threads : DoMix(t)
  \/ \E t \in Threads : DoRes(t)
  \/ \E t \in Threads : DoResK(t)
  \/ \E t \in Threads : DoRet(t)
  \/ Tick

Spec == Init /\ [][Next]_vars

(***************************************************************************)
(* One caller at a time: a call-back is entered only when no other is      *)
(* running, as when a single process reads and writes the files in turn.   *)
(***************************************************************************)
SeqCall(t, c) == Call(t, c) /\ \A u \in Threads : pc[u] = 0

SeqNext ==
  \/ \E t \in Threads, c \in SeqCalls : SeqCall(t, c)
  \/ \E t \in Threads : DoDown(t)
  \/ \E t \in Threads : DoCheck(t)
  \/ \E t \in Threads : DoLd(t)
  \/ \E t \in Threads : DoLdVid(t)
  \/ \E t \in Threads : DoRd(t)
  \/ \E t \in Threads : DoMv(t)
  \/ \E t \in Threads : DoAlarms(t)
  \/ \E t \in Threads : DoStamp(t)
  \/ \E t \in Threads : DoValid(t)
  \/ \E t \in Threads : DoUp(t)
  \/ \E t \in Threads : DoWr(t)
  \/ \E t \in Threads : DoWrD(t)
  \/ \E t \in Threads : DoWrT(t)
  \/ \E t \in Threads : DoSt(t)
  \/ \E t \in Threads : DoMix(t)
  \/ \E t \in Threads : DoRes(t)
  \/ \E t \in Threads : DoResK(t)
  \/ \E t \in Threads : DoRet(t)
  \/ Tick

SeqSpec == Init /\ [][SeqNext]_vars

(***************************************************************************)
(* One caller at a time on a bus whose reads can fail.  The client is on   *)
(* the SMBus: w83781d_read_value returns what smbus_read_byte_data returns *)
(* (line 607), a negative number when the transfer failed.  At most one    *)
(* read fails.                                                             *)
(***************************************************************************)
SMBUS_ERROR == -1

FailCalls ==
  {MkCall(fn, SENSORS_PROC_REAL_READ, 0, 0, <<>>) : fn \in {"in", "vid", "alarms"}}

\* A read of the refresh pass (lines 698-723) that the bus fails: the
\* statement goes on with the value returned.
ReadFails(t) ==
  /\ pc[t] > 0 /\ Instr(t).sect = "upd"
  /\ Instr(t).k \in {"ld", "ldvid", "rd", "alarms"}
  /\ failed = {}
  /\ failed' = {pass}
  /\ LET k == Instr(t).k
     IN  /\ data' = CASE k = "ld" -> [data EXCEPT ![Instr(t).off] = U8(SMBUS_ERROR)]
                      [] k = "ldvid" ->
                           [data EXCEPT ![Instr(t).off] =
                              U8(BitOr(@, Shr(SMBUS_ERROR % 2, 4)))]
                      [] OTHER -> data
         /\ stamp' = IF k = "ld" THEN [stamp EXCEPT ![Instr(t).off] = pass] ELSE stamp
         /\ tmp' = CASE k = "rd" -> [tmp EXCEPT ![t] = SMBUS_ERROR]
                     [] k = "alarms" -> [tmp EXCEPT ![t] = 0]
                     [] OTHER -> tmp
         /\ alarms' = IF k = "alarms" THEN (tmp[t] + Shr(SMBUS_ERROR, 8)) % 65536
                                      ELSE alarms
  /\ Step(t)
  /\ UNCHANGED <<regvars, codec, rc, isavars, valid, last_updated, update_lock, hw,
                 jiffies, call, results, nrels_mag,
                 ticks, pass, obs, passes_done, done_tick, called_at, refreshed, after>>

FailNext ==
  \/ \E t \in Threads, c \in FailCalls : SeqCall(t, c)
  \/ \E t \in Threads : ReadFails(t)
  \/ \E t \in Threads : DoDown(t)
  \/ \E t \in Threads : DoCheck(t)
  \/ \E t \in Threads : DoLd(t)
  \/ \E t \in Threads : DoLdVid(t)
  \/ \E t \in Threads : DoRd(t)
  \/ \E t \in Threads : DoMv(t)
  \/ \E t \in Threads : DoAlarms(t)
  \/ \E t \in Threads : DoStamp(t)
  \/ \E t \in Threads : DoValid(t)
  \/ \E t \in Threads : DoUp(t)
  \/ \E t \in Threads : DoWr(t)
  \/ \E t \in Threads : DoRes(t)
  \/ \E t \in Threads : DoRet(t)
  \/ Tick

FailSpec == Init /\ [][FailNext]_vars

(***************************************************************************)
(* Two callers that write the fan divisors (lines 897-908): the call-back  *)
(* takes no lock, so the steps of the two calls interleave freely.         *)
(***************************************************************************)
DivNext ==
  \/ \E t \in Threads, c \in DivCalls : Call(t, c)
  \/ \E t \in Threads : DoRd(t) \/ DoSt(t) \/ DoMix(t) \/ DoWrT(t) \/ DoRet(t)

DivSpec == Init /\ [][DivNext]_vars

(***************************************************************************)
(* The port-mapped transport (lines 596-626): w83781d_read_value and       *)
(* w83781d_write_value of an ISA client, one port access at a time.  The   *)
(* chip latches the register number written to isa_addr + 5 and serves the *)
(* register so named at isa_addr + 6.                                      *)
(***************************************************************************)
\* The registers and values the threads use.
IoRegs == {W83781D_REG_IN_MAX(0), W83781D_REG_IN_MIN(0), W83781D_REG_VID_FANDIV}
IoValues == {17, 34}

\* inb_p(isa_addr + W83781D_DATA_REG_OFFSET): the register the address port names
inb_p(h, port) == h[HwKey(h, port)]

\* outb_p(value, isa_addr + W83781D_DATA_REG_OFFSET)
outb_p(h, port, value) == [h EXCEPT ![HwKey(h, port)] = value]

isaunch ==
  <<regvars, codec, rc, failed, entered, data, alarms, valid, last_updated,
    update_lock, jiffies, thrvars, histvars>>

\* A thread enters w83781d_read_value(client, reg).
ReadValueCall(t, reg) ==
  /\ io[t] = NoIo
  /\ io' = [io EXCEPT ![t] = [NoIo EXCEPT !.pc = "down", !.kind = "read", !.reg = reg]]
  /\ UNCHANGED <<isaunch, hw, transport_lock, addr_port>>

\* A thread enters w83781d_write_value(client, reg, value).
WriteValueCall(t, reg, value) ==
  /\ io[t] = NoIo
  /\ io' = [io EXCEPT ![t] = [NoIo EXCEPT !.pc = "down", !.kind = "write",
                                          !.reg = reg, !.value = value]]
  /\ UNCHANGED <<isaunch, hw, transport_lock, addr_port>>

\* An entry that does not take data->lock.
IsaDownNoLock(t) ==
  /\ io[t].pc = "down"
  /\ io' = [io EXCEPT ![t].pc = "addr"]
  /\ UNCHANGED <<isaunch, hw, transport_lock, addr_port>>

\* lines 600 and 619: down((struct semaphore *) (client->data))
IsaDown(t) ==
  /\ io[t].pc = "down"
  /\ DownReady(transport_lock)
  /\ transport_lock' = t
  /\ io' = [io EXCEPT ![t].pc = "addr"]
  /\ UNCHANGED <<isaunch, hw, addr_port>>

\* lines 601-602 and 620: outb_p(reg, isa_addr + W83781D_ADDR_REG_OFFSET)
IsaAddr(t) ==
  /\ io[t].pc = "addr"
  /\ addr_port' = io[t].reg
  /\ io' = [io EXCEPT ![t].pc = "data"]
  /\ UNCHANGED <<isaunch, hw, transport_lock>>

\* lines 603-604: res = inb_p(isa_addr + W83781D_DATA_REG_OFFSET)
IsaDataIn(t) ==
  /\ io[t].pc = "data" /\ io[t].kind = "read"
  /\ io' = [io EXCEPT ![t].pc = "up", ![t].res = inb_p(hw, addr_port),
                      ![t].acted = <<addr_port>>]
  /\ UNCHANGED <<isaunch, hw, transport_lock, addr_port>>

\* line 621: outb_p(value, isa_addr + W83781D_DATA_REG_OFFSET)
IsaDataOut(t) ==
  /\ io[t].pc = "data" /\ io[t].kind = "write"
  /\ hw' = outb_p(hw, addr_port, io[t].value)
  /\ io' = [io EXCEPT ![t].pc = "up", ![t].acted = <<addr_port>>]
  /\ UNCHANGED <<isaunch, transport_lock, addr_port>>

\* lines 605-606 and 622-623: up(...); return
IsaUp(t) ==
  /\ io[t].pc = "up"
  /\ transport_lock' = 0
  /\ io' = [io EXCEPT ![t].pc = "done"]
  /\ UNCHANGED <<isaunch, hw, addr_port>>

IsaNext ==
  \/ \E t \in Threads, reg \in IoRegs : ReadValueCall(t, reg)
  \/ \E t \in Threads, reg \in IoRegs, value \in IoValues : WriteValueCall(t, reg, value)
  \/ \E t \in Threads :
       IsaDown(t) \/ IsaAddr(t) \/ IsaDataIn(t) \/ IsaDataOut(t) \/ IsaUp(t)

IsaSpec == Init /\ [][IsaNext]_vars

(***************************************************************************)
(* The call-backs with the transport lock of every register access: each   *)
(* w83781d_read_value and w83781d_write_value takes data->lock, makes its  *)
(* access and releases data->lock (lines 596-626).  A semaphore wakes a    *)
(* waiter when it is released, so a thread that can take a step takes it.  *)
(***************************************************************************)
\* The instructions that call w83781d_read_value or w83781d_write_value.
IoKinds == {"ld", "ldvid", "rd", "alarms", "wr", "wrd", "wrt"}

LockCalls ==
  {MkCall("fan_div", SENSORS_PROC_REAL_READ, 0, 0, <<>>),
   MkCall("in", SENSORS_PROC_REAL_WRITE, 0, 2, InValues),
   MkCall("fan_div", SENSORS_PROC_REAL_WRITE, 0, 2, DivValues)}

lockunch ==
  <<regvars, codec, rc, failed, addr_port, io, devvars, jiffies, thrvars, histvars>>

\* lines 600 and 619: down on data->lock
LkDown(t) ==
  /\ pc[t] > 0 /\ Instr(t).k \in IoKinds
  /\ entered[t] = 0
  /\ DownReady(transport_lock)
  /\ transport_lock' = t
  /\ entered' = [entered EXCEPT ![t] = pc[t]]
  /\ UNCHANGED lockunch

\* lines 601-604 and 620-621: the access, with data->lock held
LkAccess(t) ==
  /\ pc[t] > 0 /\ entered[t] = pc[t]
  /\ \/ DoLd(t) \/ DoLdVid(t) \/ DoRd(t) \/ DoAlarms(t)
     \/ DoWr(t) \/ DoWrD(t) \/ DoWrT(t)

\* lines 605 and 622: up on data->lock
LkUp(t) ==
  /\ entered[t] # 0 /\ entered[t] # pc[t]
  /\ transport_lock' = 0
  /\ entered' = [entered EXCEPT ![t] = 0]
  /\ UNCHANGED lockunch

\* Every other statement of a call-back.
LkStep(t) ==
  /\ entered[t] = 0
  /\ \/ DoDown(t) \/ DoCheck(t) \/ DoMv(t) \/ DoStamp(t) \/ DoValid(t) \/ DoUp(t)
     \/ DoSt(t) \/ DoMix(t) \/ DoRes(t) \/ DoResK(t) \/ DoRet(t)

ThreadNext(t) == LkDown(t) \/ LkAccess(t) \/ LkUp(t) \/ LkStep(t)

LockNext ==
  \/ \E t \in Threads, c \in LockCalls : Call(t, c)
  \/ \E t \in Threads : LkDown(t)
  \/ \E t \in Threads : LkAccess(t)
  \/ \E t \in Threads : LkUp(t)
  \/ \E t \in Threads : LkStep(t)

LockSpec ==
  Init /\ [][LockNext]_vars /\ \A t \in Threads : WF_vars(ThreadNext(t))

(***************************************************************************)
(* The conversion macros applied to every argument of a bounded range: a   *)
(* register byte through X_FROM_REG and back through X_TO_REG, a fan speed *)
(* through FAN_TO_REG, a VID code through VID_FROM_REG.                     *)
(***************************************************************************)
MaxFanSpeed == 3000
VidCodes == 0 .. 31

CodecArg(f, val, nr) == [f |-> f, val |-> val, nr |-> nr, done |-> FALSE, out |-> 0]

CodecInputs ==
  {CodecArg("in", r, nr) : r \in Byte, nr \in 0 .. 6}
    \cup {CodecArg("temp", r, 0) : r \in Byte}
    \cup {CodecArg("fan", v, 0) : v \in 0 .. MaxFanSpeed}
    \cup {CodecArg("vid", r, 0) : r \in VidCodes}

CodecInit == DevInit /\ RegAttached /\ RcIdle /\ TpIdle /\ codec \in CodecInputs

Applied(f, out) ==
  /\ codec.f = f /\ ~codec.done
  /\ codec' = [codec EXCEPT !.done = TRUE, !.out = out]
  /\ UNCHANGED <<devvars, jiffies, thrvars, histvars, regvars, rc, tpvars>>

\* lines 759-764 after 755-757: a limit read and written back
InRoundTrip == Applied("in", IN_TO_REG(IN_FROM_REG(codec.val, codec.nr), codec.nr))

\* lines 808-813 after 800-802
TempRoundTrip == Applied("temp", TEMP_TO_REG(TEMP_FROM_REG(codec.val)))

\* line 786
FanEncode == Applied("fan", FAN_TO_REG(codec.val))

\* line 865
VidDecode == Applied("vid", VID_FROM_REG(codec.val))

CodecNext == InRoundTrip \/ TempRoundTrip \/ FanEncode \/ VidDecode

CodecSpec == CodecInit /\ [][CodecNext]_vars

(***************************************************************************)
(* Attach and detach.                                                      *)
(***************************************************************************)
nonregvars == <<devvars, jiffies, thrvars, histvars, sidevars>>

Allocated == {p \in Ptrs : mem[p].alloc}
SysctlIds == 1 .. MaxPtrs

\* What the registry and the layers around it hold.
Holdings ==
  [list |-> w83781d_list, mem |-> mem, bus |-> bus_clients,
   sysctl |-> sysctl_entries, region |-> region]

\* A scan that stops one slot short.
FirstEmptyShortScan(list) ==
  IF \E i \in Slots : i < MAX_W83781D_NR - 1 /\ list[i] = NULL
    THEN CHOOSE i \in Slots : list[i] = NULL /\ \A j \in Slots : j < i => list[j] # NULL
    ELSE MAX_W83781D_NR - 1

\* lines 539-541: the first empty slot, MAX_W83781D_NR when there is none
FirstEmpty(list) ==
  IF \E i \in Slots : list[i] = NULL
    THEN CHOOSE i \in Slots : list[i] = NULL /\ \A j \in Slots : j < i => list[j] # NULL
    ELSE MAX_W83781D_NR

\* lines 532-557
w83781d_new_client(list, m, new_client) ==
  LET i == FirstEmpty(list)
  IN  IF i = MAX_W83781D_NR
        THEN [err |-> -ENOMEM, list |-> list, mem |-> m]
        ELSE [err |-> 0,
              list |-> [list EXCEPT ![i] = new_client],
              mem |-> [m EXCEPT ![new_client].id = i,
                                ![new_client].valid = 0,
                                ![new_client].update_lock = 0]]

\* A remove that leaves the table as it is.
w83781d_remove_client_Nothing(list, client) == list

\* A remove with the comparison inverted.
w83781d_remove_client_Others(list, client) ==
  [i \in Slots |-> IF list[i] # client THEN NULL ELSE list[i]]

\* lines 560-566
w83781d_remove_client(list, client) ==
  [i \in Slots |-> IF list[i] = client THEN NULL ELSE list[i]]

\* A lookup that stops one slot short and takes the last slot for a match.
FindClientShortScan(list, client) ==
  IF \E i \in Slots : i < MAX_W83781D_NR - 1 /\ list[i] = client
    THEN CHOOSE i \in Slots : list[i] = client /\ \A j \in Slots : j < i => list[j] # client
    ELSE MAX_W83781D_NR - 1

\* lines 416-418 and 511-513: the first slot that holds the client,
\* MAX_W83781D_NR when none does
FindClient(list, client) ==
  IF \E i \in Slots : list[i] = client
    THEN CHOOSE i \in Slots : list[i] = client /\ \A j \in Slots : j < i => list[j] # client
    ELSE MAX_W83781D_NR

\* kfree
kfree(m, p) == [m EXCEPT ![p] = FreeMem]

InDetect(label) == op.fn = "detect" /\ op.pc = label
InDetach(label) == op.fn = "detach" /\ op.pc = label

\* continue: the next address of the loop
Continue(o) ==
  [o EXCEPT !.pc = "loop", !.address = @ + (IF o.isa THEN 8 ELSE 1)]

\* lines 296-302, 327 and 442: w83781d_attach_adapter on the ISA adapter or
\* on an SMBus adapter
DetectCall(isa) ==
  /\ op = NoOp
  /\ ncalls < MaxCalls
  /\ ncalls' = ncalls + 1
  /\ op' = [fn |-> "detect", isa |-> isa, pc |-> "loop",
            address |-> IF isa THEN \h290 ELSE \h20, err |-> 0,
            new_client |-> NULL, before |-> Holdings, unwound |-> FALSE]
  /\ UNCHANGED <<w83781d_list, mem, bus_clients, sysctl_entries, region,
                 live, detached, nonregvars>>

\* lines 328 and 444: the test of the for loop
DetectLoop ==
  /\ InDetect("loop")
  /\ IF op.err = 0 /\ op.address <= (IF op.isa THEN \h290 ELSE \h2F)
       THEN op' = [op EXCEPT !.pc = "probe", !.before = Holdings,
                             !.unwound = FALSE]
       ELSE op' = [op EXCEPT !.pc = "return"]
  /\ UNCHANGED <<w83781d_list, mem, bus_clients, sysctl_entries, region,
                 live, detached, ncalls, nonregvars>>

\* What the chip-identification register can be read as.
ChipIds == {0, \h20, \h21, \h31}

\* lines 329-357: the probe of the ISA address
ProbeIsa ==
  /\ InDetect("probe") /\ op.isa
  /\ \/ \* check_region fails, or the ports do not answer like a chip
        /\ op' = Continue(op)
        /\ UNCHANGED region
     \/ \* the chip id, low bit masked, tested with !=
        /\ ~region
        /\ \E id \in ChipIds :
             LET err == id - (id % 2)
             IN  IF err # \h20
                   THEN /\ region' = TRUE
                        /\ op' = [op EXCEPT !.err = err, !.pc = "kmalloc"]
                   ELSE /\ op' = Continue([op EXCEPT !.err = err])
                        /\ UNCHANGED region

\* lines 449-462: the probe of an SMBus address
ProbeSmbus ==
  /\ InDetect("probe") /\ ~op.isa
  /\ UNCHANGED region
  /\ \/ \* the read of the configuration register fails
        op' = Continue(op)
     \/ \* the chip id, or a read failure, tested with ==
        \E id \in ChipIds \cup {-1} :
          IF id = \h20
            THEN op' = [op EXCEPT !.err = id, !.pc = "kmalloc"]
            ELSE op' = Continue([op EXCEPT !.err = id])

DetectProbe ==
  /\ ProbeIsa \/ ProbeSmbus
  /\ UNCHANGED <<w83781d_list, mem, bus_clients, sysctl_entries,
                 live, detached, ncalls, nonregvars>>

\* lines 362-373 and 466-476: kmalloc and the members set before
\* w83781d_new_client
DetectKmalloc ==
  /\ InDetect("kmalloc")
  /\ \/ /\ op' = IF op.isa THEN [op EXCEPT !.err = -ENOMEM, !.pc = "ERROR1"]
                          ELSE Continue([op EXCEPT !.err = -ENOMEM])
        /\ UNCHANGED <<mem, detached>>
     \/ \E p \in Ptrs \ Allocated :
          \* the callers compare addresses for equality only: of the free
          \* addresses the lowest stands for them all
          /\ \A q \in Ptrs \ Allocated : p <= q
          /\ mem' = [mem EXCEPT ![p] =
                       [FreeMem EXCEPT !.alloc = TRUE,
                                       !.isa = IF op.isa THEN 1 ELSE 0]]
          /\ detached' = detached \ {p}
          /\ op' = [op EXCEPT !.new_client = p, !.pc = "new_client"]
  /\ UNCHANGED <<w83781d_list, bus_clients, sysctl_entries, region, live,
                 ncalls, nonregvars>>

\* lines 374-376 and 477-478
DetectNewClient ==
  /\ InDetect("new_client")
  /\ LET r == w83781d_new_client(w83781d_list, mem, op.new_client)
     IN  /\ w83781d_list' = r.list
         /\ mem' = r.mem
         /\ IF r.err # 0
              THEN /\ op' = [op EXCEPT !.err = r.err, !.pc = "ERROR2"]
                   /\ UNCHANGED live
              ELSE /\ op' = [op EXCEPT !.err = 0, !.pc = "attach"]
                   /\ live' = live \cup {op.new_client}
  /\ UNCHANGED <<bus_clients, sysctl_entries, region, detached, ncalls,
                 nonregvars>>

\* lines 379-380 and 481-482: isa_attach_client or i2c_attach_client
DetectAttach ==
  /\ InDetect("attach")
  /\ \/ /\ bus_clients' = bus_clients \cup {op.new_client}
        /\ op' = [op EXCEPT !.err = 0, !.pc = "register"]
     \/ /\ op' = [op EXCEPT !.err = -ENOMEM, !.pc = "ERROR3", !.unwound = TRUE]
        /\ UNCHANGED bus_clients
  /\ UNCHANGED <<w83781d_list, mem, sysctl_entries, region, live, detached,
                 ncalls, nonregvars>>

\* lines 383-388 and 485-490: sensors_register_entry returns the new
\* entry's id, or a negative error
DetectRegister ==
  /\ InDetect("register")
  /\ \/ LET id == CHOOSE i \in SysctlIds \ sysctl_entries :
                    \A j \in SysctlIds \ sysctl_entries : i <= j
        IN  /\ sysctl_entries' = sysctl_entries \cup {id}
            /\ mem' = [mem EXCEPT ![op.new_client].sysctl_id = id]
            /\ op' = [op EXCEPT !.err = 0, !.pc = "init"]
     \/ /\ op' = [op EXCEPT !.err = -ENOMEM, !.pc = "ERROR4", !.unwound = TRUE]
        /\ UNCHANGED <<sysctl_entries, mem>>
  /\ UNCHANGED <<w83781d_list, bus_clients, region, live, detached, ncalls,
                 nonregvars>>

\* lines 391-392 and 493-494: w83781d_init_client
DetectInit ==
  /\ InDetect("init")
  /\ mem' = [mem EXCEPT ![op.new_client].initialized = TRUE]
  /\ op' = Continue(op)
  /\ UNCHANGED <<w83781d_list, bus_clients, sysctl_entries, region, live,
                 detached, ncalls,
                 nonregvars>>

\* lines 397-398 and 498-499: the bus layer holds the client this call
\* attached two statements earlier and gives it up; the result is not read
DetectError4 ==
  /\ InDetect("ERROR4")
  /\ bus_clients' = bus_clients \ {op.new_client}
  /\ op' = [op EXCEPT !.pc = "ERROR3"]
  /\ UNCHANGED <<w83781d_list, mem, sysctl_entries, region, live, detached,
                 ncalls, nonregvars>>

\* lines 399-400 and 500-501
DetectError3 ==
  /\ InDetect("ERROR3")
  /\ w83781d_list' = w83781d_remove_client(w83781d_list, op.new_client)
  /\ live' = live \ {op.new_client}
  /\ op' = [op EXCEPT !.pc = "ERROR2"]
  /\ UNCHANGED <<mem, bus_clients, sysctl_entries, region, detached, ncalls,
                 nonregvars>>

\* lines 401-402 and 502-503
DetectError2 ==
  /\ InDetect("ERROR2")
  /\ mem' = kfree(mem, op.new_client)
  /\ op' = IF op.isa THEN [op EXCEPT !.pc = "ERROR1"] ELSE Continue(op)
  /\ UNCHANGED <<w83781d_list, bus_clients, sysctl_entries, region, live,
                 detached, ncalls,
                 nonregvars>>

\* lines 403-405: release_region
DetectError1 ==
  /\ InDetect("ERROR1")
  /\ region' = FALSE
  /\ op' = Continue(op)
  /\ UNCHANGED <<w83781d_list, mem, bus_clients, sysctl_entries, live,
                 detached, ncalls,
                 nonregvars>>

\* lines 308-314: w83781d_detach_client reads the client's adapter to pick
\* the transport; the memory of a client that was freed holds anything
DetachCall(client) ==
  /\ op = NoOp
  /\ ncalls < MaxCalls
  /\ ncalls' = ncalls + 1
  /\ \E isa \in ReadMem(mem[client].isa, {0, 1}) :
       op' = [fn |-> "detach", isa |-> (isa = 1), pc |-> "find", client |-> client,
              err |-> 0, before |-> Holdings,
              found |-> \E i \in Slots : w83781d_list[i] = client]
  /\ UNCHANGED <<w83781d_list, mem, bus_clients, sysctl_entries, region,
                 live, detached, nonregvars>>

\* lines 416-422 and 511-517
DetachFind ==
  /\ InDetach("find")
  /\ IF FindClient(w83781d_list, op.client) = MAX_W83781D_NR
       THEN op' = [op EXCEPT !.err = -ENOENT, !.pc = "return"]
       ELSE op' = [op EXCEPT !.pc = "deregister"]
  /\ UNCHANGED <<w83781d_list, mem, bus_clients, sysctl_entries, region,
                 live, detached, ncalls, nonregvars>>

\* lines 424 and 519: sensors_deregister_entry
DetachDeregister ==
  /\ InDetach("deregister")
  /\ \E id \in ReadMem(mem[op.client].sysctl_id, SysctlIds) :
       sysctl_entries' = sysctl_entries \ {id}
  /\ op' = [op EXCEPT !.pc = "bus"]
  /\ UNCHANGED <<w83781d_list, mem, bus_clients, region, live, detached,
                 ncalls, nonregvars>>

\* lines 426-429 and 521-524: isa_detach_client or i2c_detach_client, which
\* the bus layer may refuse
DetachBus ==
  /\ InDetach("bus")
  /\ \/ /\ bus_clients' = bus_clients \ {op.client}
        /\ op' = [op EXCEPT !.pc = "remove"]
     \/ /\ op' = [op EXCEPT !.err = -ENODEV, !.pc = "return"]
        /\ UNCHANGED bus_clients
  /\ UNCHANGED <<w83781d_list, mem, sysctl_entries, region, live, detached,
                 ncalls, nonregvars>>

\* lines 430-433 and 525-527: w83781d_remove_client, release_region on the
\* ISA bus, kfree
DetachRemove ==
  /\ InDetach("remove")
  /\ w83781d_list' = w83781d_remove_client(w83781d_list, op.client)
  /\ region' = IF op.isa THEN FALSE ELSE region
  /\ mem' = kfree(mem, op.client)
  /\ live' = live \ {op.client}
  /\ detached' = detached \cup {op.client}
  /\ op' = [op EXCEPT !.err = 0, !.pc = "return"]
  /\ UNCHANGED <<bus_clients, sysctl_entries, ncalls, nonregvars>>

\* lines 407 and 505, 421, 428, 433 and 516, 523, 527: return
OpReturn ==
  /\ op.fn # "none" /\ op.pc = "return"
  /\ op' = NoOp
  /\ UNCHANGED <<w83781d_list, mem, bus_clients, sysctl_entries, region,
                 live, detached, ncalls, nonregvars>>

RegNext ==
  \/ \E isa \in BOOLEAN : DetectCall(isa)
  \/ DetectLoop
  \/ DetectProbe
  \/ DetectKmalloc
  \/ DetectNewClient
  \/ DetectAttach
  \/ DetectRegister
  \/ DetectInit
  \/ DetectError4
  \/ DetectError3
  \/ DetectError2
  \/ DetectError1
  \/ \E client \in Ptrs : DetachCall(client)
  \/ DetachFind
  \/ DetachDeregister
  \/ DetachBus
  \/ DetachRemove
  \/ OpReturn

RegInit == DevInit /\ jiffies = 0 /\ RegEmpty /\ SideIdle

RegSpec == RegInit /\ [][RegNext]_vars

(***************************************************************************)
(* The slot table under two threads.  The source takes no lock around      *)
(* w83781d_list: each thread runs w83781d_new_client (lines 532-557) or    *)
(* w83781d_remove_client (lines 560-566) one statement at a time, a        *)
(* statement being one read or one write of a slot.                        *)
(***************************************************************************)
nonconcvars ==
  <<devvars, jiffies, thrvars, histvars, codec, tpvars, bus_clients, sysctl_entries,
    region, op, detached>>

InRc(t, fn, label) == rc[t] # NoOp /\ rc[t].fn = fn /\ rc[t].pc = label

\* The caller has allocated the client (lines 363, 467) and enters
\* w83781d_new_client with it.
NewClientCall(t) ==
  /\ rc[t] = NoOp
  /\ ncalls < MaxCalls
  /\ ncalls' = ncalls + 1
  /\ \E p \in Ptrs \ Allocated :
       /\ \A q \in Ptrs \ Allocated : p <= q
       /\ mem' = [mem EXCEPT ![p] = [FreeMem EXCEPT !.alloc = TRUE]]
       /\ rc' = [rc EXCEPT ![t] = [fn |-> "new_client", pc |-> "scan", i |-> 0,
                                    client |-> p, err |-> 0]]
  /\ UNCHANGED <<w83781d_list, live, nonconcvars>>

\* lines 539-541: the test of the for loop and the test of one slot
NewClientScan(t) ==
  /\ InRc(t, "new_client", "scan")
  /\ rc' = [rc EXCEPT ![t] =
              IF @.i < MAX_W83781D_NR /\ w83781d_list[@.i] # NULL
                THEN [@ EXCEPT !.i = @ + 1]
                ELSE [@ EXCEPT !.pc = "test"]]
  /\ UNCHANGED <<w83781d_list, mem, live, ncalls, nonconcvars>>

\* lines 542-546
NewClientTest(t) ==
  /\ InRc(t, "new_client", "test")
  /\ rc' = [rc EXCEPT ![t] =
              IF @.i = MAX_W83781D_NR
                THEN [@ EXCEPT !.err = -ENOMEM, !.pc = "return"]
                ELSE [@ EXCEPT !.pc = "assign"]]
  /\ UNCHANGED <<w83781d_list, mem, live, ncalls, nonconcvars>>

\* lines 548-556
NewClientAssign(t) ==
  /\ InRc(t, "new_client", "assign")
  /\ w83781d_list' = [w83781d_list EXCEPT ![rc[t].i] = rc[t].client]
  /\ mem' = [mem EXCEPT ![rc[t].client].id = rc[t].i,
                        ![rc[t].client].valid = 0,
                        ![rc[t].client].update_lock = 0]
  /\ live' = live \cup {rc[t].client}
  /\ rc' = [rc EXCEPT ![t].err = 0, ![t].pc = "return"]
  /\ UNCHANGED <<ncalls, nonconcvars>>

\* A caller enters w83781d_remove_client with a client it created.
RemoveClientCall(t) ==
  /\ rc[t] = NoOp
  /\ ncalls < MaxCalls
  /\ ncalls' = ncalls + 1
  /\ \E p \in live :
       /\ \A u \in Threads : rc[u] # NoOp => rc[u].client # p
       /\ rc' = [rc EXCEPT ![t] = [fn |-> "remove_client", pc |-> "scan", i |-> 0,
                                    client |-> p, err |-> 0]]
       /\ live' = live \ {p}
  /\ UNCHANGED <<w83781d_list, mem, nonconcvars>>

\* lines 563-565: one iteration of the loop
RemoveClientScan(t) ==
  /\ InRc(t, "remove_client", "scan")
  /\ IF rc[t].i < MAX_W83781D_NR
       THEN /\ w83781d_list' =
                 IF w83781d_list[rc[t].i] = rc[t].client
                   THEN [w83781d_list EXCEPT ![rc[t].i] = NULL]
                   ELSE w83781d_list
            /\ rc' = [rc EXCEPT ![t].i = @ + 1]
       ELSE /\ rc' = [rc EXCEPT ![t].pc = "return"]
            /\ UNCHANGED w83781d_list
  /\ UNCHANGED <<mem, live, ncalls, nonconcvars>>

\* The return to the caller, which frees the client after a remove and
\* after a new_client that failed (lines 404, 432, 503, 526).
RcReturn(t) ==
  /\ rc[t] # NoOp /\ rc[t].pc = "return"
  /\ mem' = IF rc[t].fn = "remove_client" \/ rc[t].err # 0
              THEN kfree(mem, rc[t].client) ELSE mem
  /\ rc' = [rc EXCEPT ![t] = NoOp]
  /\ UNCHANGED <<w83781d_list, live, ncalls, nonconcvars>>

ConcNext ==
  \/ \E t \in Threads : NewClientCall(t)
  \/ \E t \in Threads : NewClientScan(t)
  \/ \E t \in Threads : NewClientTest(t)
  \/ \E t \in Threads : NewClientAssign(t)
  \/ \E t \in Threads : RemoveClientCall(t)
  \/ \E t \in Threads : RemoveClientScan(t)
  \/ \E t \in Threads : RcReturn(t)

ConcSpec == RegInit /\ [][ConcNext]_vars

(***************************************************************************)
(* Properties of attach and detach (RegSpec).                              *)
(***************************************************************************)
TableFull == \A i \in Slots : w83781d_list[i] # NULL
SlotsOf(p) == {i \in Slots : w83781d_list[i] = p}

\* C5: after any sequence of creates and destroys at most MAX_W83781D_NR
\* handles are live, and w83781d_new_client called with every slot occupied
\* returns -ENOMEM and leaves the slot table as it is.
C5_CapacityFour ==
  [][/\ Cardinality(live') <= MAX_W83781D_NR
     /\ (InDetect("new_client") /\ TableFull /\ op' # op)
          => /\ op'.err = -ENOMEM
             /\ op'.pc = "ERROR2"
             /\ w83781d_list' = w83781d_list
             /\ live' = live]_vars

\* C5's case: a fifth create has failed on the full table.
C5_Witness ==
  /\ InDetect("ERROR2") /\ op.err = -ENOMEM
  /\ TableFull /\ Cardinality(live) = MAX_W83781D_NR
  /\ op.new_client \notin live

\* C6: a detach of a handle that is in no slot, because it was never created
\* or was detached before, returns -ENOENT and leaves the slot table, every
\* client structure and what the bus layer, the sensors module and the port
\* map hold as they were.
C6_DetachAbsentNotFound ==
  (InDetach("return") /\ ~op.found)
    => (op.err = -ENOENT /\ Holdings = op.before)

\* C6's case: the second detach of a handle has returned, with other
\* handles in the table.
C6_Witness ==
  /\ InDetach("return") /\ ~op.found /\ op.client \in detached
  /\ live # {}

\* C7: every live handle is in exactly one slot, the slot its id names; no
\* slot holds anything else; no two live handles have the same id; and a
\* slot that holds a handle changes only when w83781d_remove_client removes
\* that handle.
C7_SlotsUniqueAndStable ==
  [][/\ \A p \in live' :
          /\ Cardinality(SlotsOf(p)') = 1
          /\ mem'[p].alloc
          /\ mem'[p].id \in Slots
          /\ w83781d_list'[mem'[p].id] = p
     /\ \A i \in Slots : w83781d_list'[i] # NULL => w83781d_list'[i] \in live'
     /\ \A p, q \in live' : p # q => mem'[p].id # mem'[q].id
     /\ \A p \in live \cap live' : mem'[p].id = mem[p].id
     /\ \A i \in Slots :
          (w83781d_list[i] # NULL /\ w83781d_list'[i] # w83781d_list[i])
            => /\ w83781d_list'[i] = NULL
               /\ \/ InDetach("remove") /\ op.client = w83781d_list[i]
                  \/ InDetect("ERROR3") /\ op.new_client = w83781d_list[i]]_vars

\* C7's case: a handle is still in slot 1 after the handle of slot 0 was
\* destroyed.
C7_Witness ==
  /\ op = NoOp
  /\ w83781d_list[0] = NULL /\ w83781d_list[1] \in live
  /\ detached # {}

Returned(t) == pc[t] = 0 /\ call[t] # NoCall
Idle == \A t \in Threads : pc[t] = 0

\* The thread is in the block of w83781d_update_client between down and up.
InPass(t) == pc[t] > 0 /\ Instr(t).sect = "upd" /\ Instr(t).k # "down"

\* The thread takes a step of its call.
Steps(t) == pc'[t] # pc[t]

\* The staleness interval, and the number of times jiffies had wrapped
\* around after tk ticks.
Interval == HZ + HZ \div 2
Wraps(tk) == (((jiffies - ticks) % JiffiesMod) + tk) \div JiffiesMod

\* C1: whatever the interleaving of the threads calling
\* w83781d_update_client on the device, at most one of them is inside the
\* refresh pass, between the down and the up of update_lock.
C1_OneRefreshAtATime == Cardinality({t \in Threads : InPass(t)}) <= 1

\* C1's case: a thread is reading registers in the pass while another
\* waits at the down.
C1_Witness ==
  \E t, u \in Threads : t # u /\ At(t, "ld") /\ InPass(t) /\ At(u, "down")

\* C2 as stated: a thread whose call overlapped another thread's refresh
\* pass, and that evaluates the predicate no more than the staleness
\* interval after that pass, issues no reads of its own.
C2_SecondCallerSkips ==
  [][\A t \in Threads :
       (At(t, "check") /\ Steps(t) /\ passes_done > called_at[t]
          /\ ticks - done_tick <= Interval)
         => Instr(t)'.k = "up"]_vars

\* C2 amended: the same, provided jiffies did not wrap around between the
\* first caller's pass and the second caller's evaluation of the predicate.
C2_SecondCallerSkipsNoWrap ==
  [][\A t \in Threads :
       (At(t, "check") /\ Steps(t) /\ passes_done > called_at[t]
          /\ ticks - done_tick <= Interval
          /\ Wraps(ticks) = Wraps(done_tick))
         => Instr(t)'.k = "up"]_vars

\* C2's case: the second caller has found the cache fresh after waiting
\* for the first caller's pass.
C2_Witness ==
  \E t \in Threads :
    At(t, "up") /\ ~refreshed[t] /\ passes_done > called_at[t]
      /\ Wraps(ticks) = Wraps(done_tick)

\* C3: the bytes a read call decodes after w83781d_update_client returned
\* were all loaded by one refresh pass.
C3_ReadSeesOnePass == \A t \in Threads : Cardinality(obs[t]) <= 1

\* C4: holding update_lock, w83781d_update_client runs the refresh pass if
\* and only if valid is false, or jiffies - last_updated exceeds HZ + HZ/2,
\* or jiffies is before last_updated; a call that does not refresh leaves
\* the cached bytes, the alarms, valid and last_updated as they are; a pass
\* stamps last_updated with the current jiffies and ends with valid true.
C4_RefreshIffStale ==
  [][\A t \in Threads :
       LET needed == \/ ~valid
                     \/ (jiffies - last_updated) % JiffiesMod > Interval
                     \/ jiffies < last_updated
       IN  /\ (At(t, "check") /\ Steps(t)) =>
                /\ update_lock = t
                /\ needed <=> Instr(t)'.k # "up"
                /\ UNCHANGED <<data, alarms, valid, last_updated>>
           /\ (At(t, "up") /\ Steps(t) /\ ~refreshed[t]) =>
                UNCHANGED <<data, alarms, valid, last_updated>>
           /\ (At(t, "stamp") /\ Steps(t)) => last_updated' = jiffies
           /\ (At(t, "up") /\ Steps(t) /\ refreshed[t]) =>
                /\ valid
                /\ last_updated = ((jiffies - ticks) + done_tick) % JiffiesMod]_vars

\* C4's case: a call has returned without a refresh, having found a valid
\* and fresh cache.
C4_Witness ==
  \E t \in Threads :
    Returned(t) /\ call[t].operation = SENSORS_PROC_REAL_READ /\ ~refreshed[t]

\* The codec of a channel's writable fields.
Encode(fn, nr, v) ==
  CASE fn = "in" -> IN_TO_REG(v, nr)
    [] fn = "fan" -> FAN_TO_REG(v)
    [] fn \in TempFns -> TEMP_TO_REG(v)
    [] fn = "fan_div" -> DIV_TO_REG(v)
DecodeOf(fn, nr, r) ==
  CASE fn = "in" -> IN_FROM_REG(r, nr)
    [] fn = "fan" -> FAN_FROM_REG(r)
    [] fn \in TempFns -> TEMP_FROM_REG(r)
    [] fn = "fan_div" -> DIV_FROM_REG(r)

\* C8: a read of a channel, issued after a write of that channel has
\* returned, yields decode(encode(v)) for each field the write supplied.
C8_ReadAfterWrite ==
  \A r, w \in Threads :
    (/\ Returned(r) /\ call[r].operation = SENSORS_PROC_REAL_READ
     /\ w \in after[r] /\ call[w].operation = SENSORS_PROC_REAL_WRITE
     /\ call[w].fn = call[r].fn /\ call[w].nr = call[r].nr)
      => \A n \in 1 .. call[w].nrels :
           results[r][n]
             = DecodeOf(call[w].fn, call[w].nr,
                        Encode(call[w].fn, call[w].nr, call[w].results[n]))

\* C9: the device being initialized, whenever no call-back is running on
\* it the bank selector 0x4E holds 0.
C9_BankSelectorRestored == Idle => hw[<<0, W83781D_REG_TEMP_SEL>>] = 0

\* C9's case: a read of temperature channel 3 and a read that ran the
\* refresh have both returned.
C9_Witness ==
  /\ Idle
  /\ \E t, u \in Threads :
       /\ t # u /\ Returned(t) /\ Returned(u)
       /\ call[t] = MkCall("temp3", SENSORS_PROC_REAL_READ, 0, 0, <<>>)
       /\ call[u].operation = SENSORS_PROC_REAL_READ
       /\ refreshed[u]


(***************************************************************************)
(* Detection (RegSpec).                                                    *)
(***************************************************************************)
\* C11: on both transports a client is put in a slot only if the value read
\* from the chip-identification register 0x58, low bit masked off, is 0x20.
\* At "new_client" err still holds what the probe read (masked on the ISA
\* bus, as read on the SMBus).
C11_AttachOnlyOnChipId ==
  [][(InDetect("new_client") /\ w83781d_list' # w83781d_list)
       => op.err - (op.err % 2) = \h20]_vars


(***************************************************************************)
(* Properties of the call-backs of a single caller (SeqSpec).              *)
(***************************************************************************)
\* The thread's call is the last call made, and it has returned.
LastReturned(t) ==
  /\ Returned(t)
  /\ \A u \in Threads : u > t => call[u] = NoCall

\* The sensor of a temperature file: temp, temp2, temp3.
TempChannel(fn) == CASE fn = "temp" -> 1 [] fn = "temp2" -> 2 [] fn = "temp3" -> 3

\* The cached bytes of the channel of a call, in the order of the values of
\* a read.  Sensor k of the chip is entry k - 1 of temp[], temp_over[] and
\* temp_hyst[]: that is where the refresh puts its registers.
ChannelFields(c) ==
  CASE c.fn = "in" -> <<data_in_min(c.nr), data_in_max(c.nr), data_in(c.nr)>>
    [] c.fn = "fan" -> <<data_fan_min(c.nr - 1), data_fan(c.nr - 1)>>
    [] c.fn \in TempFns ->
         <<data_temp_over(TempChannel(c.fn) - 1),
           data_temp_hyst(TempChannel(c.fn) - 1),
           data_temp(TempChannel(c.fn) - 1)>>
    [] c.fn = "vid" -> <<data_vid>>
    [] c.fn = "fan_div" -> <<data_fan_div(0), data_fan_div(1)>>
    [] c.fn = "alarms" -> <<>>

\* The decode of cached byte r of field i of the channel.
FieldDecode(c, i, r) ==
  CASE c.fn = "in" -> IN_FROM_REG(r, c.nr)
    [] c.fn = "fan" -> FAN_FROM_REG(r)
    [] c.fn \in TempFns -> TEMP_FROM_REG(r)
    [] c.fn = "vid" -> VID_FROM_REG(r)
    [] c.fn = "fan_div" -> DIV_FROM_REG(r)

\* What a read of the channel is to return, from the cache as it is.
ReadValues(c) ==
  IF c.fn = "alarms" THEN <<ALARMS_FROM_REG(alarms)>>
  ELSE [i \in 1 .. Len(ChannelFields(c)) |->
          FieldDecode(c, i, data[ChannelFields(c)[i]])]
       \o (IF c.fn = "fan_div" THEN <<2>> ELSE <<>>)

\* C12: a read returns, per kind of channel, a fixed number of values in a
\* fixed order (voltage min, max, current; fan min, current; temperature
\* limit, hysteresis, current; VID; alarms; divisor 1, divisor 2, 2), each
\* the decode of the corresponding cached byte once the refresh has run.
C12_ReadShape ==
  \A t \in Threads :
    (LastReturned(t) /\ call[t].operation = SENSORS_PROC_REAL_READ)
      => /\ nrels_mag[t] = Len(ReadValues(call[t]))
         /\ results[t] = ReadValues(call[t])

\* The same, of the channels that are not temperatures.
C12_ReadShapeNotTemp ==
  \A t \in Threads :
    (/\ LastReturned(t) /\ call[t].operation = SENSORS_PROC_REAL_READ
     /\ call[t].fn \notin TempFns)
      => /\ nrels_mag[t] = Len(ReadValues(call[t]))
         /\ results[t] = ReadValues(call[t])


\* The number of fields of the channel that a write can set, and how many
\* of them a call with c.nrels values sets.
WritableCount(c) ==
  CASE c.fn \in {"in", "fan_div"} \cup TempFns -> 2
    [] c.fn = "fan" -> 1
    [] OTHER -> 0
Supplied(c) == IF c.nrels < WritableCount(c) THEN c.nrels ELSE WritableCount(c)

\* The registers of writable field i of the channel; a banked limit is the
\* register pair of the sensor's bank.
FieldRegs(c, i) ==
  CASE c.fn = "in" ->
         {<<0, IF i = 1 THEN W83781D_REG_IN_MIN(c.nr) ELSE W83781D_REG_IN_MAX(c.nr)>>}
    [] c.fn = "fan" -> {<<0, W83781D_REG_FAN_MIN(c.nr)>>}
    [] c.fn = "temp" ->
         {<<0, IF i = 1 THEN W83781D_REG_TEMP_OVER ELSE W83781D_REG_TEMP_HYST>>}
    [] c.fn \in {"temp2", "temp3"} ->
         LET r == IF i = 1 THEN W83781D_REG_TEMP_OVER23 ELSE W83781D_REG_TEMP_HYST23
             s == IF c.fn = "temp2" THEN 2 ELSE 4
         IN  {<<s, r>>, <<s, r + 1>>}
    [] c.fn = "fan_div" -> {<<0, W83781D_REG_VID_FANDIV>>}

\* The code that field i holds in the register file h: the register, or
\* for a fan divisor its two bits of 0x47.
FieldCode(c, i, h) ==
  IF c.fn = "fan_div" THEN Shr(h[<<0, W83781D_REG_VID_FANDIV>>], 2 + 2 * i) % 4
  ELSE h[CHOOSE k \in FieldRegs(c, i) : \A l \in FieldRegs(c, i) : k[2] <= l[2]]

\* A step of a write call with n values keeps the cache bytes and the
\* registers that are not among the channel's first n writable fields (the
\* bank selector apart), and the call ends with those n fields encoded.
WriteStepOk(t) ==
  LET c == call[t]
      n == Supplied(c)
  IN  /\ \A o \in DataBytes \ {ChannelFields(c)[i] : i \in 1 .. n} :
           data'[o] = data[o]
      /\ \A k \in HwKeys \ ({<<0, W83781D_REG_TEMP_SEL>>}
                             \cup UNION {FieldRegs(c, i) : i \in 1 .. n}) :
           hw'[k] = hw[k]
      /\ c.fn = "fan_div" =>
           /\ hw'[<<0, W83781D_REG_VID_FANDIV>>] % 16
                = hw[<<0, W83781D_REG_VID_FANDIV>>] % 16
           /\ \A i \in (n + 1) .. 2 : FieldCode(c, i, hw') = FieldCode(c, i, hw)
      /\ pc'[t] = 0 =>
           \A i \in 1 .. n :
             /\ data'[ChannelFields(c)[i]] = Encode(c.fn, c.nr, c.results[i])
             /\ FieldCode(c, i, hw') = Encode(c.fn, c.nr, c.results[i])

\* C13: a write with n values encodes and writes exactly the first n
\* writable fields of the channel and leaves every other field, the current
\* reading among them, unchanged in the cache and in the register file.
C13_WritePrefix ==
  [][\A t \in Threads :
       (pc[t] > 0 /\ call[t].operation = SENSORS_PROC_REAL_WRITE)
         => WriteStepOk(t)]_vars

\* The same, of the channels that are not temperatures.
C13_WritePrefixNotTemp ==
  [][\A t \in Threads :
       (/\ pc[t] > 0 /\ call[t].operation = SENSORS_PROC_REAL_WRITE
        /\ call[t].fn \notin TempFns)
         => WriteStepOk(t)]_vars


(***************************************************************************)
(* Properties of the conversions (CodecSpec).                              *)
(***************************************************************************)
CodecDone(f) == codec.f = f /\ codec.done

\* C14: for every register byte r and every voltage channel nr, the two
\* with negative scale among them, IN_TO_REG(IN_FROM_REG(r, nr), nr) is r,
\* r - 1 or r + 1.
C14_InRoundTripWithinOne ==
  CodecDone("in") =>
    (codec.out - codec.val \in {-1, 0, 1})

\* C14's case: the largest byte of a channel of negative scale, whose
\* reading is negative, has gone through both macros.
C14_Witness ==
  /\ CodecDone("in") /\ w83781d_in_conv[codec.nr + 1] < 0
  /\ codec.val = 255 /\ IN_FROM_REG(codec.val, codec.nr) < 0

\* C15: for every register byte r, 0x80 and 0x81..0xff among them,
\* TEMP_TO_REG(TEMP_FROM_REG(r)) is r.
C15_TempRoundTripExact == CodecDone("temp") => codec.out = codec.val

\* C15's case: a byte of the negative range has gone through both macros.
C15_Witness == CodecDone("temp") /\ codec.val > 128 /\ TEMP_FROM_REG(codec.val) < 0

\* 1350000 / (phys * 2) rounded to the nearest integer.
FanCount(phys) == (2 * 1350000 + 2 * phys) \div (4 * phys)

\* C16: FAN_TO_REG(0) is 255, and for a speed phys > 0 it is the rounded
\* count 1350000 / (phys * 2) clamped into 0..255: a count above 255 gives
\* 255.
C16_FanEncodeClamps ==
  CodecDone("fan") =>
    codec.out = IF codec.val = 0 \/ FanCount(codec.val) > 255
                  THEN 255 ELSE FanCount(codec.val)

\* C17 as stated: VID_FROM_REG(0x1f) is 0, VID_FROM_REG(0x10) is 410,
\* VID_FROM_REG(0x00) is 205 and VID_FROM_REG(0x06) is 0.
C17_VidTable410 ==
  CodecDone("vid") =>
    /\ codec.val = \h1f => codec.out = 0
    /\ codec.val = \h10 => codec.out = 410
    /\ codec.val = \h00 => codec.out = 205
    /\ codec.val = \h06 => codec.out = 0

\* C17, amended: VID_FROM_REG(0x1f) is 0, VID_FROM_REG(0x10) is 350,
\* VID_FROM_REG(0x00) is 205 and VID_FROM_REG(0x06) is 0.
C17_VidTable ==
  CodecDone("vid") =>
    /\ codec.val = \h1f => codec.out = 0
    /\ codec.val = \h10 => codec.out = 350
    /\ codec.val = \h00 => codec.out = 205
    /\ codec.val = \h06 => codec.out = 0

\* C17's case: the code 0x10 has been decoded.
C17_Witness == CodecDone("vid") /\ codec.val = \h10


(***************************************************************************)
(* Properties of the slot table under two threads (ConcSpec).              *)
(***************************************************************************)
\* C18: creates and destroys exclude each other on the slot table, so that
\* for every interleaving of two of them no two creates are assigned the
\* same slot and no handle that w83781d_new_client stored is overwritten:
\* every handle stored, and that no remove has been called for, is still in
\* the slot that its id names.
C18_NoHandleOverwritten ==
  \A p \in live : mem[p].id \in Slots /\ w83781d_list[mem[p].id] = p


(***************************************************************************)
(* Properties of the locking of the cache and of the bank selector (Spec). *)
(***************************************************************************)
\* The instructions that store into a member of struct w83781d_data.
StoreKinds == {"ld", "ldvid", "mv", "alarms", "stamp", "valid", "st"}

\* C19: every store to a member of the cached state (in, in_min, in_max,
\* fan, fan_min, temp, temp_over, temp_hyst, fan_div, vid, alarms, valid,
\* last_updated), by the refresh or by a write accessor, is made by a thread
\* that holds the device's update_lock.
C19_StoresUnderLock ==
  [][\A t \in Threads :
       (pc[t] > 0 /\ pc'[t] # pc[t] /\ Instr(t).k \in StoreKinds)
         => update_lock = t]_vars

\* The cache bytes of the three temperature sensors.
TempBytes ==
  {data_temp(i) : i \in 0 .. 2} \cup {data_temp_over(i) : i \in 0 .. 2}
    \cup {data_temp_hyst(i) : i \in 0 .. 2}

\* The value that the refresh of thread t last wrote to the bank selector.
RefreshSelect(t) ==
  LET prog == ProgOf[call[t]]
      sels == {j \in 1 .. (pc[t] - 1) :
                 /\ prog[j].k = "wr" /\ prog[j].sect = "upd"
                 /\ prog[j].reg = W83781D_REG_TEMP_SEL}
  IN  prog[CHOOSE j \in sels : \A l \in sels : l <= j].val

\* C20: whatever temperature accessors run beside a refresh, each read that
\* the refresh makes of a temperature register is made while the bank
\* selector holds the value this refresh selected for the sensor.
C20_RefreshBankHeld ==
  \A t \in Threads :
    (/\ pc[t] > 0 /\ Instr(t).sect = "upd" /\ Instr(t).k = "ld"
     /\ Instr(t).off \in TempBytes)
      => hw[<<0, W83781D_REG_TEMP_SEL>>] = RefreshSelect(t)


(***************************************************************************)
(* Properties of the cached values (SeqSpec).                              *)
(***************************************************************************)
\* The registers of temperature sensor k and the bank that selects them.
SensorRegs(k) ==
  IF k = 1 THEN {W83781D_REG_TEMP, W83781D_REG_TEMP_OVER, W83781D_REG_TEMP_HYST}
  ELSE {W83781D_REG_TEMP23, W83781D_REG_TEMP_OVER23, W83781D_REG_TEMP_HYST23}
SensorBank(k) == <<1, 2, 4>>[k]

\* The value last written to the bank selector before instruction j.
SelectBefore(prog, j) ==
  LET sels == {l \in 1 .. (j - 1) :
                 prog[l].k = "wr" /\ prog[l].reg = W83781D_REG_TEMP_SEL}
  IN  prog[CHOOSE l \in sels : \A m \in sels : m <= l].val

\* The cache bytes that the refresh fills from the registers of sensor k.
RefreshEntry(k) ==
  LET prog == w83781d_update_client
  IN  {prog[j].off : j \in {l \in DOMAIN prog :
                              /\ prog[l].k = "ld"
                              /\ prog[l].reg \in SensorRegs(k)
                              /\ SelectBefore(prog, l) = SensorBank(k)}}

\* C21: the accessor of temperature channel k reads and writes the cache
\* entry that the refresh fills from the registers of sensor k (0x27, 0x39,
\* 0x3A for k = 1; 0x50, 0x55, 0x53 under bank 2 for k = 2 and under bank 4
\* for k = 3), an entry inside the 3-element arrays temp, temp_over and
\* temp_hyst.
C21_TempEntryOfChannel ==
  \A t \in Threads :
    (/\ pc[t] > 0 /\ call[t].fn \in TempFns
     /\ Instr(t).sect = "acc" /\ Instr(t).k \in {"res", "st", "wrd"})
      => /\ Instr(t).off \in RefreshEntry(TempChannel(call[t].fn))
         /\ Instr(t).off \in TempBytes


(***************************************************************************)
(* Properties of a refresh on a bus whose reads can fail (FailSpec).       *)
(***************************************************************************)
\* C22: valid becomes true, and the cache is stamped as fresh, only at the
\* end of a refresh pass in which every register read succeeded; a read
\* that fails is reported and its result is not stored in the cache.
C22_ValidAfterCleanPass ==
  [][/\ \A t \in Threads :
          (pc[t] > 0 /\ pc'[t] # pc[t] /\ Instr(t).k \in {"stamp", "valid"})
            => pass \notin failed
     /\ failed' # failed => (data' = data /\ alarms' = alarms)]_vars


(***************************************************************************)
(* Properties of detach and of initialization (RegSpec).                   *)
(***************************************************************************)
\* C23: a detach that the bus layer refuses returns the error with no
\* partial effect: the handle in its slot, its sysctl entry registered, its
\* memory and its I/O region held, all as before the call.
C23_RefusedDetachNoEffect ==
  (InDetach("return") /\ op.found /\ op.err = -ENODEV) => Holdings = op.before


\* C28: w83781d_init_client has finished for a handle before the handle can
\* be used: while a client is in a slot of w83781d_list or has its sysctl
\* entry registered, it is initialized.
C28_InitBeforeReachable ==
  \A p \in Ptrs :
    (/\ mem[p].alloc
     /\ \/ \E i \in Slots : w83781d_list[i] = p
        \/ mem[p].sysctl_id \in sysctl_entries)
      => mem[p].initialized


(***************************************************************************)
(* Properties of the cached VID code and alarms (SeqSpec).                 *)
(***************************************************************************)
\* The 5-bit VID code of the chip: the low 4 bits of register 0x47 and, as
\* bit 4, bit 0 of the chip-id register 0x58.
VidCodeOf(h) ==
  (w83781d_read_value(h, W83781D_REG_VID_FANDIV) % 16)
    + 16 * (w83781d_read_value(h, W83781D_REG_CHIPID) % 2)

\* C24: after a refresh the cached VID code is the 5-bit value whose low 4
\* bits are the low 4 bits of register 0x47 and whose bit 4 is bit 0 of the
\* chip-id register 0x58.
C24_VidCodeFiveBits ==
  (Idle /\ passes_done > 0) => data[data_vid] = VidCodeOf(hw)

\* C25: after a refresh the cached alarms value has alarm register 1 (0x41)
\* in its low byte and alarm register 2 (0x42) in its high byte.
C25_AlarmsBothRegisters ==
  (Idle /\ passes_done > 0)
    => alarms = w83781d_read_value(hw, W83781D_REG_ALARM1)
                  + 256 * w83781d_read_value(hw, W83781D_REG_ALARM2)


(***************************************************************************)
(* Properties of concurrent fan-divisor writes (DivSpec).                  *)
(***************************************************************************)
\* The divisor code of fan i + 1 in register 0x47 (bits 4-5 and 6-7).
DivBits(h, i) == Shr(w83781d_read_value(h, W83781D_REG_VID_FANDIV), 4 + 2 * i) % 4

AllReturned == \A t \in Threads : call[t] # NoCall /\ pc[t] = 0

\* C29: once two concurrent fan-divisor writes have both returned, the
\* divisor bits of register 0x47 equal the cached codes fan_div[0] and
\* fan_div[1] (where the cache holds a code), and the VID bits 0-3 of the
\* register are what they were before.
C29_DivisorsMatchCache ==
  AllReturned
    => /\ \A i \in 0 .. 1 :
            data[data_fan_div(i)] # Uninit => DivBits(hw, i) = data[data_fan_div(i)]
       /\ w83781d_read_value(hw, W83781D_REG_VID_FANDIV) % 16 \in VidPins


(***************************************************************************)
(* Properties of the port-mapped transport (IsaSpec).                      *)
(***************************************************************************)
\* C27: on the port-mapped transport the write of the register number to
\* the address port and the access of the data port that follows are one
\* atomic pair: while a thread is between the two the address port holds
\* the register it named, and the data port access it has made acted on
\* that register.
C27_AddressDataPairAtomic ==
  \A t \in Threads :
    /\ io[t].pc = "data" => addr_port = io[t].reg
    /\ io[t].pc \in {"up", "done"} => io[t].acted = <<io[t].reg>>

\* One thread has made both port accesses and still holds data->lock while
\* another, which names a different register, waits to enter.
C27_Witness ==
  \E t, u \in Threads :
    /\ io[t].pc = "up" /\ io[u].pc = "down"
    /\ io[t].reg # io[u].reg


(***************************************************************************)
(* Properties of the locks of the call-backs (LockSpec).                   *)
(***************************************************************************)
\* update_lock is only taken by a thread that does not hold data->lock.
LockOrder ==
  \A t \in Threads :
    (update_lock # t /\ update_lock' = t) => (transport_lock # t /\ entered[t] = 0)

\* A thread about to take a lock does not hold it, a thread that holds
\* data->lock is inside a register access, a thread outside its call holds
\* no lock, and a thread in the accessor's own statements, where the
\* conversions are applied, does not hold update_lock.
LockDiscipline ==
  \A t \in Threads :
    /\ At(t, "down") => update_lock # t
    /\ entered[t] = 0 => transport_lock # t
    /\ pc[t] = 0 => (update_lock # t /\ transport_lock # t)
    /\ (pc[t] > 0 /\ Instr(t).sect = "acc") => update_lock # t

\* C26: with threads calling read and write call-backs on the same device
\* every call returns; update_lock is taken before data->lock and never
\* while it is held, no thread takes a lock it holds, every lock taken is
\* released before the call returns, and update_lock is not held while the
\* caller applies a conversion.
C26_EveryCallReturns ==
  /\ \A t \in Threads : (pc[t] > 0) ~> (pc[t] = 0)
  /\ [][LockOrder]_vars
  /\ []LockDiscipline

\* One thread holds update_lock and data->lock, taken in that order, while
\* another waits at the down on update_lock.
C26_Witness ==
  \E t, u \in Threads :
    /\ t # u
    /\ update_lock = t /\ transport_lock = t /\ entered[t] = pc[t]
    /\ At(u, "down")

====
